---- MODULE Spec2Model ----
(***************************************************************************)
(* Zeplin sync: a model of the two host adapters (Logseq block graph,      *)
(* Obsidian vault) and of the pure helpers they share.                     *)
(*                                                                         *)
(* Strings are sequences of atoms.  An atom is one character ("a", "/",    *)
(* " ") or a literal of the source; a literal used in a path holds no      *)
(* separator, no illegal character and no blank at its ends ("Components", *)
(* ".md").                                                                 *)
(***************************************************************************)
EXTENDS Integers, Sequences, FiniteSets, TLC

VARIABLES
    arg,      \* pure helpers: the argument of the call
    ret,      \* pure helpers: the value returned
    fpc,      \* pure helpers: "call" before the call, "done" after it
    blocks,   \* Logseq graph: the blocks, a block's uuid is its index
    pages,    \* Logseq graph: page name -> [first block uuid, properties]
    hist,     \* Logseq graph: the upsertBlock calls made so far, with results
    faulted,  \* Logseq graph: some host store call has failed so far
    now,      \* the clock read by Date.now()
    remote,   \* the remote source: project, sections, components, screens
    cfg,      \* the plugin settings
    vault,    \* Obsidian vault: the files, path -> content
    folders,  \* Obsidian vault: the folders
    pc,       \* the sync run: the step it is at
    run,      \* the sync run: its local variables
    runs,     \* the number of sync runs started
    log       \* the sync run: local units written by this run, in order

vars == <<arg, ret, fpc, blocks, pages, hist, faulted, now, remote, cfg,
          vault, folders, pc, run, runs, log>>

pureVars == <<arg, ret, fpc>>
graphVars == <<blocks, pages, hist, faulted>>
vaultVars == <<vault, folders>>
syncVars == <<remote, cfg, pc, run, runs, log>>

Null == "null"

(***************************************************************************)
(* Bounds                                                                  *)
(***************************************************************************)
MaxSanLen == 4
MaxNameLen == 3
MaxPatLen == 2
MaxPatterns == 2

(***************************************************************************)
(* Strings                                                                 *)
(***************************************************************************)
StringsOver(alphabet, n) == UNION {[1..k -> alphabet] : k \in 0..n}

RECURSIVE DropWhile(_, _)
DropWhile(s, set) ==
    IF s = <<>> THEN <<>>
    ELSE IF Head(s) \in set THEN DropWhile(Tail(s), set) ELSE s

RECURSIVE Reverse(_)
Reverse(s) == IF s = <<>> THEN <<>> ELSE Append(Reverse(Tail(s)), Head(s))

\* s split at every occurrence of sep: "a/b" -> <<"a", "b">>, "" -> <<"">>
RECURSIVE SplitAcc(_, _, _)
SplitAcc(s, sep, cur) ==
    IF s = <<>> THEN <<cur>>
    ELSE IF Head(s) = sep THEN <<cur>> \o SplitAcc(Tail(s), sep, <<>>)
    ELSE SplitAcc(Tail(s), sep, Append(cur, Head(s)))

Split(s, sep) == SplitAcc(s, sep, <<>>)

\* the segments joined by "/", as a template literal `${a}/${b}` does
RECURSIVE Join(_)
Join(segs) ==
    IF segs = <<>> THEN <<>>
    ELSE IF Len(segs) = 1 THEN segs[1]
    ELSE segs[1] \o <<"/">> \o Join(Tail(segs))

(***************************************************************************)
(* sanitizePath: name.replace(/[<>:"/\\|?*]/g, '-')                        *)
(*                   .replace(/\s+/g, ' ').trim()                          *)
(***************************************************************************)
IllegalChars == {"<", ">", ":", "\"", "/", "\\", "|", "?", "*"}

\* the characters of \s and of trim(): blank, tab and the line terminators
LineTerminators == {"\n", "\r"}
WhiteSpace == {" ", "\t"} \cup LineTerminators

ReplaceIllegal(s) ==
    [i \in 1..Len(s) |-> IF s[i] \in IllegalChars THEN "-" ELSE s[i]]

\* a mutant: /\s/g without the +, every blank replaced on its own
CollapseNoPlus(s) ==
    [i \in 1..Len(s) |-> IF s[i] \in WhiteSpace THEN " " ELSE s[i]]

RECURSIVE CollapseWhitespace(_)
CollapseWhitespace(s) ==
    IF s = <<>> THEN <<>>
    ELSE IF Head(s) \in WhiteSpace
         THEN <<" ">> \o CollapseWhitespace(DropWhile(s, WhiteSpace))
         ELSE <<Head(s)>> \o CollapseWhitespace(Tail(s))

Trim(s) == Reverse(DropWhile(Reverse(DropWhile(s, WhiteSpace)), WhiteSpace))

sanitizePath(name) == Trim(CollapseWhitespace(ReplaceIllegal(name)))

(***************************************************************************)
(* globToRegex and shouldExclude.  A compiled pattern is the sequence of   *)
(* its regex tokens between ^ and $: a literal character, "." or ".*".     *)
(***************************************************************************)
RegexMeta == {".", "+", "^", "$", "{", "}", "(", ")", "|", "[", "]", "\\"}

Lit(c) == [t |-> "lit", c |-> c]
Dot == [t |-> "dot", c |-> ""]
DotStar == [t |-> "dotstar", c |-> ""]

\* a mutant: the escaping replace left out, a "." of the pattern stays a regex "."
globNoEscape(pattern) ==
    [i \in 1..Len(pattern) |->
        IF pattern[i] = "*" THEN DotStar
        ELSE IF pattern[i] \in {"?", "."} THEN Dot
        ELSE Lit(pattern[i])]

globToRegex(pattern) ==
    [i \in 1..Len(pattern) |->
        IF pattern[i] \in RegexMeta THEN Lit(pattern[i])   \* escaped: \. \+ ...
        ELSE IF pattern[i] = "*" THEN DotStar
        ELSE IF pattern[i] = "?" THEN Dot
        ELSE Lit(pattern[i])]

\* the canonical form the i flag compares characters in
Canon(c) ==
    CASE c = "a" -> "A"
      [] c = "b" -> "B"
      [] c = "o" -> "O"
      [] c = "l" -> "L"
      [] c = "d" -> "D"
      [] c = "x" -> "X"
      [] OTHER -> c

\* RegExp.prototype.test of ^tokens$ with flag i and without flags s and m:
\* "." matches any character but a line terminator
RECURSIVE MatchFrom(_, _, _, _)
MatchFrom(tokens, s, i, j) ==
    IF i > Len(tokens) THEN j > Len(s)
    ELSE LET tk == tokens[i] IN
         CASE tk.t = "lit" ->
                  /\ j <= Len(s)
                  /\ Canon(s[j]) = Canon(tk.c)
                  /\ MatchFrom(tokens, s, i + 1, j + 1)
           [] tk.t = "dot" ->
                  /\ j <= Len(s)
                  /\ s[j] \notin LineTerminators
                  /\ MatchFrom(tokens, s, i + 1, j + 1)
           [] tk.t = "dotstar" ->
                  \/ MatchFrom(tokens, s, i + 1, j)
                  \/ /\ j <= Len(s)
                     /\ s[j] \notin LineTerminators
                     /\ MatchFrom(tokens, s, i, j + 1)

RegexMatch(tokens, s) == MatchFrom(tokens, s, 1, 1)

shouldExclude(excludePatterns, name) ==
    IF Len(excludePatterns) = 0 THEN FALSE
    ELSE \E i \in 1..Len(excludePatterns) :
             RegexMatch(globToRegex(excludePatterns[i]), name)

\* the constructor: settings.excludePatterns split at "\n", every line trimmed,
\* the empty lines dropped
RECURSIVE NonEmpty(_)
NonEmpty(seq) ==
    IF seq = <<>> THEN <<>>
    ELSE IF Head(seq) = <<>> THEN NonEmpty(Tail(seq))
    ELSE <<Head(seq)>> \o NonEmpty(Tail(seq))

parsePatterns(text) ==
    LET lines == Split(text, "\n") IN
    NonEmpty([i \in 1..Len(lines) |-> Trim(lines[i])])

(***************************************************************************)
(* rgbaToHex (the same in both synchronizers).  A channel n in [0,1] is    *)
(* the integer k with n = k / ChannelOne, so that n * 255 is k / 2 and the *)
(* halves Math.round rounds up are among the inputs.                       *)
(***************************************************************************)
ChannelOne == 510

HexDigit(d) ==
    <<"0", "1", "2", "3", "4", "5", "6", "7",
      "8", "9", "a", "b", "c", "d", "e", "f">>[d + 1]

\* Number.prototype.toString(16) of a natural number
RECURSIVE ToString16(_)
ToString16(n) ==
    IF n < 16 THEN <<HexDigit(n)>>
    ELSE ToString16(n \div 16) \o <<HexDigit(n % 16)>>

\* Math.round(n * 255): the nearest integer, a half rounded up
Round255(k) == (k + 1) \div 2

\* a mutant: a single digit is not padded
toHexNoPad(k) == ToString16(Round255(k))

toHex(k) ==
    LET hex == ToString16(Round255(k)) IN
    IF Len(hex) = 1 THEN <<"0">> \o hex ELSE hex

rgbaToHex(r, g, b, a) ==
    LET alpha == IF a < ChannelOne THEN toHex(a) ELSE <<>> IN
    <<"#">> \o toHex(r) \o toHex(g) \o toHex(b) \o alpha

(***************************************************************************)
(* Every specification below starts the parts it does not use in these     *)
(* states and leaves them alone.                                           *)
(***************************************************************************)
NoMap == [x \in {} |-> Null]

PureOff == arg = Null /\ ret = Null /\ fpc = "off"
GraphOff == blocks = <<>> /\ pages = NoMap /\ hist = <<>> /\ faulted = FALSE
VaultOff == vault = NoMap /\ folders = {}
SyncOff ==
    /\ remote = Null /\ cfg = Null /\ pc = "off"
    /\ run = Null /\ runs = 0 /\ log = <<>>

(***************************************************************************)
(* SpecSanitize: sanitizePath applied to every short string, and then to   *)
(* its own result.                                                         *)
(***************************************************************************)
SanAlphabet == {"a", "-", "/", ":", " ", "\n"}

InitSanitize ==
    /\ arg \in StringsOver(SanAlphabet, MaxSanLen)
    /\ ret = <<>> /\ fpc = "call"
    /\ GraphOff /\ VaultOff /\ SyncOff /\ now = 0

CallSanitizePath ==
    /\ fpc = "call"
    /\ ret' = <<sanitizePath(arg)>>
    /\ fpc' = "done"
    /\ UNCHANGED <<arg, graphVars, vaultVars, syncVars, now>>

\* the result of the first call sanitized again; ret keeps both results
SanitizeAgain ==
    /\ fpc = "done"
    /\ ret' = Append(ret, sanitizePath(ret[1]))
    /\ fpc' = "again"
    /\ UNCHANGED <<arg, graphVars, vaultVars, syncVars, now>>

NextSanitize == CallSanitizePath \/ SanitizeAgain

SpecSanitize == InitSanitize /\ [][NextSanitize]_vars

(***************************************************************************)
(* SpecExclude: shouldExclude applied to every short pattern list and      *)
(* name.  The patterns are what the constructor keeps: trimmed, not empty, *)
(* without a line break.                                                   *)
(***************************************************************************)
PatAlphabet == {"a", "B", "*", "?", "."}
NameAlphabet == {"a", "A", "b", ".", "\n"}

Patterns == StringsOver(PatAlphabet, MaxPatLen) \ {<<>>}

InitExclude ==
    /\ arg \in [patterns : StringsOver(Patterns, MaxPatterns),
                name : StringsOver(NameAlphabet, MaxNameLen)]
    /\ ret = Null /\ fpc = "call"
    /\ GraphOff /\ VaultOff /\ SyncOff /\ now = 0

CallShouldExclude ==
    /\ fpc = "call"
    /\ ret' = shouldExclude(arg.patterns, arg.name)
    /\ fpc' = "done"
    /\ UNCHANGED <<arg, graphVars, vaultVars, syncVars, now>>

NextExclude == CallShouldExclude

SpecExclude == InitExclude /\ [][NextExclude]_vars

\* The glob the specification describes: "*" any run of characters, the empty
\* run included, "?" exactly one character, every other character itself, the
\* whole name matched, letters compared without case.
RECURSIVE GlobMatch(_, _)
GlobMatch(p, s) ==
    IF p = <<>> THEN s = <<>>
    ELSE CASE Head(p) = "*" ->
                  \/ GlobMatch(Tail(p), s)
                  \/ s # <<>> /\ GlobMatch(p, Tail(s))
           [] Head(p) = "?" -> s # <<>> /\ GlobMatch(Tail(p), Tail(s))
           [] OTHER ->
                  /\ s # <<>>
                  /\ Canon(Head(s)) = Canon(Head(p))
                  /\ GlobMatch(Tail(p), Tail(s))

GlobExcludes(ps, name) == \E i \in 1..Len(ps) : GlobMatch(ps[i], name)

HasLineTerminator(s) == \E i \in 1..Len(s) : s[i] \in LineTerminators

\* C7: shouldExclude(N) is true exactly when some pattern of P, read as a glob,
\* matches the whole of N without regard to case (false for every N when P is
\* empty; a pattern matching only a part of N does not exclude it).
C7_ExcludeIsGlob ==
    fpc = "done" => (ret = GlobExcludes(arg.patterns, arg.name))

\* C7 on the names that hold no line terminator (not claimed: the part of C7
\* the code does satisfy).
ExcludeIsGlobOnOneLine ==
    fpc = "done" /\ ~HasLineTerminator(arg.name)
        => (ret = GlobExcludes(arg.patterns, arg.name))

\* C8: sanitizePath(sanitizePath(x)) = sanitizePath(x), and the result holds no
\* illegal character, no run of two or more blanks and no blank at either end.
IsClean(s) ==
    /\ \A i \in 1..Len(s) : s[i] \notin IllegalChars
    /\ \A i \in 1..Len(s) - 1 : ~(s[i] \in WhiteSpace /\ s[i + 1] \in WhiteSpace)
    /\ s # <<>> => Head(s) \notin WhiteSpace /\ s[Len(s)] \notin WhiteSpace

C8_SanitizeIdempotent ==
    /\ fpc \in {"done", "again"} => \A i \in 1..Len(ret) : IsClean(ret[i])
    /\ fpc = "again" => ret[2] = ret[1]

\* a name with an illegal character and a run of two blanks inside, and one
\* with blanks at both ends, have been sanitized twice
C8_Witness ==
    /\ fpc = "again"
    /\ arg \in {<<"/", " ", "\n", "a">>, <<" ", "a", ":", "\n">>}
    /\ ret[1] \in {<<"-", " ", "a">>, <<"a", "-">>}
    /\ ret[2] = ret[1]

(***************************************************************************)
(* The remote source (ZeplinClient) and the settings.                      *)
(*                                                                         *)
(* remote.components and remote.screens are the lists the API returns, in  *)
(* list order; the detail of an item is the item itself.  An entity's sec  *)
(* is the id of its section or NoSection.  An optional value is a record   *)
(* [some, val].                                                            *)
(***************************************************************************)
MaxRuns == 2

None == [some |-> FALSE, val |-> <<>>]
Some(v) == [some |-> TRUE, val |-> v]

\* if (x) of an optional string: defined and not empty
Truthy(opt) == opt.some /\ opt.val # <<>>

NoSection == "none"

EntityNames ==
    {<<"a", "/", "b">>, <<"a", "-", "b">>, <<"x", "-", "o", "l", "d">>}
ProjectNames == {<<"P">>, <<"P", "/", "Q">>}

\* getSections: sec1 is named, sec2 has an empty name; sec9, which entities may
\* refer to, is not in the list
RemoteSections ==
    <<[id |-> "sec1", name |-> <<"I", "/", "O">>],
      [id |-> "sec2", name |-> <<>>]>>
SectionRefs == {NoSection, "sec1", "sec2", "sec9"}

NoImage == [large |-> None, original |-> None, medium |-> None, url |-> None]

\* what does not vary: c1 and s1 carry a description, images and tags
EntityDescription(id) == IF id \in {"c1", "s1"} THEN Some(<<"text">>) ELSE None
EntityImage(id) ==
    IF id \in {"c1", "s1"}
    THEN [large |-> Some(<<"url-large">>), original |-> None,
          medium |-> Some(<<"url-medium">>), url |-> None]
    ELSE NoImage
EntityTags(id) == IF id = "s1" THEN <<"t1", "t2">> ELSE <<>>

Entity(id, name, sec) ==
    [id |-> id, name |-> name, sec |-> sec,
     description |-> EntityDescription(id),
     image |-> EntityImage(id), latest |-> NoImage, images |-> <<>>,
     tags |-> EntityTags(id)]

RemoteColors ==
    <<[id |-> "col1", name |-> Some(<<"red">>),
       r |-> ChannelOne, g |-> 0, b |-> 0, a |-> 255]>>
RemoteTextStyles == <<[id |-> "ts1", name |-> <<"body">>]>>

Project(name, components, screens) ==
    [id |-> "p1", name |-> name,
     number_of_components |-> Len(components),
     number_of_screens |-> Len(screens),
     number_of_colors |-> Len(RemoteColors),
     number_of_text_styles |-> Len(RemoteTextStyles)]

Remotes ==
    {[project |-> Project(pn, cs, ss), sections |-> RemoteSections,
      components |-> cs, screens |-> ss,
      colors |-> RemoteColors, textStyles |-> RemoteTextStyles] :
        pn \in ProjectNames,
        cs \in {<<Entity("c1", n1, s1), Entity("c2", n2, s2)>> :
                    n1 \in EntityNames, n2 \in EntityNames,
                    s1 \in SectionRefs, s2 \in {NoSection, "sec1"}},
        ss \in {<<Entity("s1", <<"a", "/", "b">>, sc)>> :
                    sc \in {NoSection, "sec1"}}}

\* getComponent / getScreen: the item of the list with this id
RECURSIVE Detail(_, _)
Detail(list, id) ==
    IF Head(list).id = id THEN Head(list) ELSE Detail(Tail(list), id)

\* the settings text of the exclude patterns, one pattern per line
PatternTexts == {<<>>, <<" ", "*", "-", "o", "l", "d", "\n", "\n">>}

ObsidianSettings ==
    [defaultFolder : {<<"Zeplin">>},
     imageStorage : {"assets"},
     templateFormat : {"detailed"},
     excludePatterns : PatternTexts,
     createProjectFolder : BOOLEAN,
     organizeBySections : BOOLEAN]

(***************************************************************************)
(* The Obsidian vault.  fs is [vault, folders, log]: the files, the        *)
(* folders and the writes made, so that the calls of one step chain.       *)
(***************************************************************************)
Extend(f, k, v) == [x \in DOMAIN f \cup {k} |-> IF x = k THEN v ELSE f[x]]

\* getAbstractFileByPath(path) finds something
Exists(fs, path) == path \in DOMAIN fs.vault \/ path \in fs.folders

ensureFolder(fs, path) ==
    IF Exists(fs, path) THEN fs
    ELSE [fs EXCEPT !.folders = @ \cup {path}]

\* path.substring(0, path.lastIndexOf('/'))
ParentPath(path) ==
    LET slashes == {k \in 1..Len(path) : path[k] = "/"} IN
    IF slashes = {} THEN <<>>
    ELSE SubSeq(path, 1, (CHOOSE k \in slashes : \A m \in slashes : m <= k) - 1)

\* a mutant: the file is always created beside its older versions
writeFileAlwaysNew(fs, path, content, unit) ==
    LET fresh == IF path \in DOMAIN fs.vault THEN path \o <<" 1">> ELSE path IN
    [fs EXCEPT !.vault = Extend(@, fresh, content),
               !.log = Append(@, [path |-> fresh, kind |-> unit.kind,
                                  id |-> unit.id, op |-> "create"])]

\* unit says what the file is, [kind, id]: it is kept in the log of writes only
writeFile(fs, path, content, unit) ==
    IF path \in DOMAIN fs.vault
    THEN [fs EXCEPT !.vault = [@ EXCEPT ![path] = content],
                    !.log = Append(@, [path |-> path, kind |-> unit.kind,
                                       id |-> unit.id, op |-> "modify"])]
    ELSE LET parentPath == ParentPath(path)
             fs1 == IF parentPath # <<>> /\ ~Exists(fs, parentPath)
                    THEN [fs EXCEPT !.folders = @ \cup {parentPath}]
                    ELSE fs
         IN [fs1 EXCEPT !.vault = Extend(@, path, content),
                        !.log = Append(@, [path |-> path, kind |-> unit.kind,
                                           id |-> unit.id, op |-> "create"])]

(***************************************************************************)
(* ObsidianSynchronizer: the content of a file.  A file is                 *)
(* [kind, fields, entries, total, skipped]; a rendered entity is the       *)
(* sequence of its fields [f, v, at] in the order they are appended.       *)
(***************************************************************************)
Field(f, v) == [f |-> f, v |-> v, at |-> 0]
File(kind, fields) ==
    [kind |-> kind, fields |-> fields, entries |-> <<>>, total |-> 0, skipped |-> 0]
IndexFile(kind, entries, total, skipped) ==
    [kind |-> kind, fields |-> <<>>, entries |-> entries,
     total |-> total, skipped |-> skipped]

\* a mutant: the medium thumbnail is tried before the large one
extractImageUrlMediumFirst(item) ==
    IF Truthy(item.image.medium) THEN item.image.medium
    ELSE IF Truthy(item.image.large) THEN item.image.large
    ELSE IF Truthy(item.image.original) THEN item.image.original
    ELSE IF Truthy(item.image.url) THEN item.image.url
    ELSE None

\* ObsidianSynchronizer.extractImageUrl
extractImageUrlObs(item) ==
    IF Truthy(item.image.large) THEN item.image.large
    ELSE IF Truthy(item.image.original) THEN item.image.original
    ELSE IF Truthy(item.image.medium) THEN item.image.medium
    ELSE IF Truthy(item.image.url) THEN item.image.url
    ELSE None

\* `${x}` of a value that may be undefined
Interpolate(opt) == IF opt.some THEN opt.val ELSE <<"undefined">>

RECURSIVE HashTags(_)
HashTags(tags) ==
    IF tags = <<>> THEN <<>>
    ELSE IF Len(tags) = 1 THEN <<"#", tags[1]>>
    ELSE <<"#", tags[1], " ">> \o HashTags(Tail(tags))

If(cond, seq) == IF cond THEN seq ELSE <<>>

buildComponentMarkdown(project, component, clock) ==
    LET imageUrl == extractImageUrlObs(component) IN
    <<Field("Type", <<"Component">>)>>
    \o If(component.section.present,
          <<Field("Section", Interpolate(component.section.name))>>)
    \o <<Field("Zeplin URL", <<"https://app.zeplin.io/project/", project.id,
                               "/components?coid=", component.id>>)>>
    \o If(component.description.some /\ component.description.val # <<>>,
          <<Field("Description", component.description.val)>>)
    \o If(imageUrl.some /\ imageUrl.val # <<>>,
          <<Field("Preview", <<"![">> \o component.name \o <<"](">>
                             \o imageUrl.val \o <<")">>)>>)
    \o <<[f |-> "Synced", v |-> <<>>, at |-> clock]>>

buildScreenMarkdown(project, screen, clock) ==
    LET imageUrl == extractImageUrlObs(screen) IN
    <<Field("Type", <<"Screen">>)>>
    \o If(screen.section.present,
          <<Field("Section", Interpolate(screen.section.name))>>)
    \o If(Len(screen.tags) > 0, <<Field("Tags", HashTags(screen.tags))>>)
    \o <<Field("Zeplin URL", <<"https://app.zeplin.io/project/", project.id,
                               "/screen/", screen.id>>)>>
    \o If(screen.description.some /\ screen.description.val # <<>>,
          <<Field("Description", screen.description.val)>>)
    \o If(imageUrl.some /\ imageUrl.val # <<>>,
          <<Field("Preview", <<"![">> \o screen.name \o <<"](">>
                             \o imageUrl.val \o <<")">>)>>)
    \o <<[f |-> "Synced", v |-> <<>>, at |-> clock]>>

(***************************************************************************)
(* ObsidianSynchronizer: paths.                                            *)
(***************************************************************************)
\* the base path of createProjectStructure
obsBasePath(project) ==
    IF cfg.createProjectFolder
    THEN cfg.defaultFolder \o <<"/">> \o sanitizePath(project.name)
    ELSE cfg.defaultFolder

\* the base path of syncComponents, syncScreens and syncDesignTokens
obsTypePath(project, typeFolder) ==
    IF cfg.createProjectFolder
    THEN cfg.defaultFolder \o <<"/">> \o sanitizePath(project.name)
             \o <<"/", typeFolder>>
    ELSE cfg.defaultFolder \o <<"/", typeFolder>>

\* new Map(sections.map(s => [s.id, s.name || 'Unknown'])): a later entry of the
\* list replaces an earlier one with the same id
RECURSIVE sectionMapOf(_)
sectionMapOf(sections) ==
    IF sections = <<>> THEN NoMap
    ELSE LET last == sections[Len(sections)]
             rest == sectionMapOf(SubSeq(sections, 1, Len(sections) - 1))
         IN Extend(rest, last.id,
                   IF last.name # <<>> THEN last.name ELSE <<"Unknown">>)

\* if (full.section?.id) full.section.name = sectionMap.get(full.section.id)
populateSection(full, sectionMap) ==
    [id |-> full.id, name |-> full.name, description |-> full.description,
     image |-> full.image, tags |-> full.tags,
     section |->
        IF full.sec = NoSection THEN [present |-> FALSE, name |-> None]
        ELSE [present |-> TRUE,
              name |-> IF full.sec \in DOMAIN sectionMap
                       THEN Some(sectionMap[full.sec]) ELSE None]]

\* a mutant: the section folder is used whenever the entity has a section name
itemPathAlwaysBySection(basePath, full) ==
    IF full.section.name.some /\ full.section.name.val # <<>>
    THEN basePath \o <<"/">> \o sanitizePath(full.section.name.val)
             \o <<"/">> \o sanitizePath(full.name) \o <<".md">>
    ELSE basePath \o <<"/">> \o sanitizePath(full.name) \o <<".md">>

\* the file path of a component or screen
itemPath(basePath, full) ==
    LET fileName == sanitizePath(full.name) \o <<".md">> IN
    IF cfg.organizeBySections
       /\ full.section.name.some /\ full.section.name.val # <<>>
    THEN LET sectionFolder == sanitizePath(full.section.name.val) IN
         basePath \o <<"/">> \o sectionFolder \o <<"/">> \o fileName
    ELSE basePath \o <<"/">> \o fileName

\* filePath.replace('.md', ''): the first ".md" removed
RemoveFirst(str, atom) ==
    LET hits == {k \in 1..Len(str) : str[k] = atom} IN
    IF hits = {} THEN str
    ELSE LET k == CHOOSE h \in hits : \A m \in hits : h <= m IN
         SubSeq(str, 1, k - 1) \o SubSeq(str, k + 1, Len(str))

\* a mutant: the filter keeps every item
FilterNothing(list, patterns) == list

Filter(list, patterns) ==
    SelectSeq(list, LAMBDA c : ~shouldExclude(patterns, c.name))

(***************************************************************************)
(* ObsidianSynchronizer.syncProject, one action per awaited stage.  The    *)
(* clock advances once per run.                                            *)
(***************************************************************************)
NoProject ==
    [id |-> "none", name |-> <<>>, number_of_components |-> 0,
     number_of_screens |-> 0, number_of_colors |-> 0, number_of_text_styles |-> 0]

IdleRun ==
    [project |-> NoProject, sectionMap |-> NoMap, filtered |-> <<>>,
     skipped |-> 0, i |-> 0, entries |-> <<>>, error |-> "none"]

FS == [vault |-> vault, folders |-> folders, log |-> log]

Commit(fs) == vault' = fs.vault /\ folders' = fs.folders /\ log' = fs.log

NoUnit(kind) == [kind |-> kind, id |-> "none"]

createProjectStructure(fs, project, clock) ==
    LET basePath == obsBasePath(project)
        fs1 == ensureFolder(fs, basePath)
        fs2 == ensureFolder(fs1, basePath \o <<"/", "Components">>)
        fs3 == ensureFolder(fs2, basePath \o <<"/", "Screens">>)
        fs4 == ensureFolder(fs3, basePath \o <<"/", "Design Tokens">>)
        indexContent ==
            File("readme",
                 <<Field("Title", project.name),
                   [f |-> "Last updated", v |-> <<>>, at |-> clock]>>)
    IN writeFile(fs4, basePath \o <<"/", "README.md">>, indexContent,
                 NoUnit("readme"))

\* a mutant: the components and the screens are never synced
AfterStructureTokens(project) == "tokens"

AfterStructure(project) ==
    IF project.number_of_components > 0 THEN "components"
    ELSE IF project.number_of_screens > 0 THEN "screens" ELSE "tokens"

AfterComponents(project) ==
    IF project.number_of_screens > 0 THEN "screens" ELSE "tokens"

Idle == pc \in {"idle", "done", "failed"}

\* syncProject up to the end of createProjectStructure
ObsStartSync ==
    /\ Idle /\ runs < MaxRuns
    /\ runs' = runs + 1
    /\ now' = now + 1
    /\ LET project == remote.project IN
       /\ run' = [IdleRun EXCEPT !.project = project]
       /\ Commit(createProjectStructure(
              [vault |-> vault, folders |-> folders, log |-> <<>>],
              project, now'))
       /\ pc' = AfterStructure(project)
    /\ UNCHANGED <<pureVars, graphVars, remote, cfg>>

\* syncComponents / syncScreens up to the loop: the sections, the list, the
\* filter and the head of the index
ObsBeginList(stage, list) ==
    /\ pc = stage
    /\ LET filtered == Filter(list, parsePatterns(cfg.excludePatterns)) IN
       run' = [run EXCEPT !.sectionMap = sectionMapOf(remote.sections),
                          !.filtered = filtered,
                          !.skipped = Len(list) - Len(filtered),
                          !.i = 1,
                          !.entries = <<>>]
    /\ pc' = IF stage = "components" THEN "componentItems" ELSE "screenItems"
    /\ UNCHANGED <<pureVars, graphVars, vaultVars, remote, cfg, runs, log, now>>

ObsSyncComponentsBegin == ObsBeginList("components", remote.components)
ObsSyncScreensBegin == ObsBeginList("screens", remote.screens)

\* one turn of the loop: the detail, the section name, the path, the content,
\* the file and the line of the index
ObsSyncComponent ==
    /\ pc = "componentItems" /\ run.i <= Len(run.filtered)
    /\ LET component == run.filtered[run.i]
           full == populateSection(Detail(remote.components, component.id),
                                   run.sectionMap)
           filePath == itemPath(obsTypePath(run.project, "Components"), full)
           content == buildComponentMarkdown(run.project, full, now)
       IN /\ Commit(writeFile(FS, filePath, File("component", content),
                              [kind |-> "component", id |-> full.id]))
          /\ run' = [run EXCEPT
                        !.i = @ + 1,
                        !.entries = Append(@, [link |-> RemoveFirst(filePath, ".md"),
                                               name |-> full.name])]
    /\ UNCHANGED <<pureVars, graphVars, remote, cfg, pc, runs, now>>

ObsSyncScreen ==
    /\ pc = "screenItems" /\ run.i <= Len(run.filtered)
    /\ LET screen == run.filtered[run.i]
           full == populateSection(Detail(remote.screens, screen.id),
                                   run.sectionMap)
           filePath == itemPath(obsTypePath(run.project, "Screens"), full)
           content == buildScreenMarkdown(run.project, full, now)
       IN /\ Commit(writeFile(FS, filePath, File("screen", content),
                              [kind |-> "screen", id |-> full.id]))
          /\ run' = [run EXCEPT
                        !.i = @ + 1,
                        !.entries = Append(@, [link |-> RemoveFirst(filePath, ".md"),
                                               name |-> full.name])]
    /\ UNCHANGED <<pureVars, graphVars, remote, cfg, pc, runs, now>>

\* after the loop: the index file
ObsSyncComponentsEnd ==
    /\ pc = "componentItems" /\ run.i > Len(run.filtered)
    /\ Commit(writeFile(FS, obsTypePath(run.project, "Components") \o <<".md">>,
                        IndexFile("components-index", run.entries,
                                  Len(run.filtered), run.skipped),
                        NoUnit("components-index")))
    /\ pc' = AfterComponents(run.project)
    /\ UNCHANGED <<pureVars, graphVars, remote, cfg, run, runs, now>>

ObsSyncScreensEnd ==
    /\ pc = "screenItems" /\ run.i > Len(run.filtered)
    /\ Commit(writeFile(FS, obsTypePath(run.project, "Screens") \o <<".md">>,
                        IndexFile("screens-index", run.entries,
                                  Len(run.filtered), run.skipped),
                        NoUnit("screens-index")))
    /\ pc' = "tokens"
    /\ UNCHANGED <<pureVars, graphVars, remote, cfg, run, runs, now>>

\* syncDesignTokens: one file listing the colors and the text styles
ObsSyncDesignTokens ==
    /\ pc = "tokens"
    /\ LET colors == If(run.project.number_of_colors > 0,
                        [i \in 1..Len(remote.colors) |->
                            Field("Color",
                                  (IF Truthy(remote.colors[i].name)
                                   THEN remote.colors[i].name.val
                                   ELSE <<"Unnamed">>)
                                  \o <<": ">>
                                  \o rgbaToHex(remote.colors[i].r, remote.colors[i].g,
                                               remote.colors[i].b, remote.colors[i].a))])
           styles == If(run.project.number_of_text_styles > 0,
                        [i \in 1..Len(remote.textStyles) |->
                            Field("Text Style", remote.textStyles[i].name)])
       IN Commit(writeFile(FS, obsTypePath(run.project, "Design Tokens") \o <<".md">>,
                           File("tokens", colors \o styles), NoUnit("tokens")))
    /\ pc' = "done"
    /\ UNCHANGED <<pureVars, graphVars, remote, cfg, run, runs, now>>

(***************************************************************************)
(* Between two runs the remote source changes: an entity is renamed or     *)
(* moved to another section (one change after a run).                      *)
(***************************************************************************)
RemoteRenameComponent ==
    /\ pc = "done" /\ runs < MaxRuns
    /\ \E i \in 1..Len(remote.components), n \in EntityNames :
          /\ n # remote.components[i].name
          /\ remote' = [remote EXCEPT !.components[i].name = n]
    /\ pc' = "idle"
    /\ UNCHANGED <<pureVars, graphVars, vaultVars, cfg, run, runs, log, now>>

RemoteMoveComponent ==
    /\ pc = "done" /\ runs < MaxRuns
    /\ \E i \in 1..Len(remote.components), sc \in {NoSection, "sec1"} :
          /\ sc # remote.components[i].sec
          /\ remote' = [remote EXCEPT !.components[i].sec = sc]
    /\ pc' = "idle"
    /\ UNCHANGED <<pureVars, graphVars, vaultVars, cfg, run, runs, log, now>>

InitObsidian ==
    /\ PureOff /\ GraphOff
    /\ vault = NoMap /\ folders = {}
    /\ remote \in Remotes
    /\ cfg \in ObsidianSettings
    /\ pc = "idle" /\ run = IdleRun /\ runs = 0 /\ log = <<>> /\ now = 0

NextObsidian ==
    \/ ObsStartSync
    \/ ObsSyncComponentsBegin
    \/ ObsSyncComponent
    \/ ObsSyncComponentsEnd
    \/ ObsSyncScreensBegin
    \/ ObsSyncScreen
    \/ ObsSyncScreensEnd
    \/ ObsSyncDesignTokens
    \/ RemoteRenameComponent
    \/ RemoteMoveComponent

SpecObsidian == InitObsidian /\ [][NextObsidian]_vars

(***************************************************************************)
(* Claims about the Obsidian adapter.                                      *)
(***************************************************************************)
\* the remote id a rendered file carries, in its Zeplin URL
FileId(file) ==
    IF file.kind \in {"component", "screen"}
    THEN LET k == CHOOSE k \in 1..Len(file.fields) : file.fields[k].f = "Zeplin URL"
         IN file.fields[k].v[4]
    ELSE "none"

FilesOf(kind, id) ==
    {p \in DOMAIN vault : vault[p].kind = kind /\ FileId(vault[p]) = id}

RemoteList(kind) == IF kind = "component" THEN remote.components ELSE remote.screens
TypeFolder(kind) == IF kind = "component" THEN "Components" ELSE "Screens"

\* the items of the list, in list order, that no pattern (read as a glob) matches
RECURSIVE Surviving(_)
Surviving(list) ==
    IF list = <<>> THEN <<>>
    ELSE IF GlobExcludes(parsePatterns(cfg.excludePatterns), Head(list).name)
         THEN Surviving(Tail(list))
         ELSE <<Head(list)>> \o Surviving(Tail(list))

\* the section name an entity resolves to through the list of sections
SectionListed(e) ==
    \E k \in 1..Len(remote.sections) : remote.sections[k].id = e.sec
ResolvedSectionName(e) ==
    LET k == CHOOSE k \in 1..Len(remote.sections) : remote.sections[k].id = e.sec
    IN IF remote.sections[k].name = <<>> THEN <<"Unknown">>
       ELSE remote.sections[k].name

\* the segments of <base>: the default folder and, with createProjectFolder,
\* the sanitized project name
BaseSegments ==
    Split(cfg.defaultFolder, "/")
        \o If(cfg.createProjectFolder, <<sanitizePath(remote.project.name)>>)

\* the path the claims expect for an entity
ExpectedPath(kind, e) ==
    Join(BaseSegments \o <<<<TypeFolder(kind)>>>>
         \o If(cfg.organizeBySections /\ SectionListed(e),
               <<sanitizePath(ResolvedSectionName(e))>>)
         \o <<sanitizePath(e.name) \o <<".md">>>>)

EntityWrites(kind) ==
    {k \in 1..Len(log) : log[k].kind = kind}

\* the run is past the end of syncComponents: the files and the index are written
ComponentsSynced == pc \in {"screens", "screenItems", "tokens", "done"}

\* C3: after any sequence of runs every surviving component or screen has its
\* file, and no other file carries its remote id; also after a rename or a move
\* to another section between two runs.
C3_OneFilePerRemoteId ==
    pc = "done" =>
        \A kind \in {"component", "screen"} :
            \A k \in 1..Len(Surviving(RemoteList(kind))) :
                LET e == Surviving(RemoteList(kind))[k] IN
                /\ ExpectedPath(kind, e) \in DOMAIN vault
                /\ \A p \in FilesOf(kind, e.id) : p = ExpectedPath(kind, e)

\* C4: within one run, two distinct components (or screens) that survive the
\* filter are written to two distinct files, whatever their names.
C4_DistinctUnits ==
    \A kind \in {"component", "screen"} :
        \A i \in EntityWrites(kind), j \in EntityWrites(kind) :
            log[i].id # log[j].id => log[i].path # log[j].path

\* C5: one run writes one component file for every component no pattern
\* excludes and none for an excluded one; with organizeBySections a component
\* whose section resolves to S is written at
\* <base>/Components/<sanitize(S)>/<sanitize(name)>.md; the Components index
\* lists the components not excluded, one entry each, and Total is their count.
C5_FilteredComponents ==
    ComponentsSynced =>
        LET kept == Surviving(remote.components)
            indexPath == Join(BaseSegments \o <<<<"Components", ".md">>>>)
        IN
        /\ \A k \in 1..Len(kept) :
              /\ Cardinality({w \in EntityWrites("component") :
                                  log[w].id = kept[k].id}) = 1
              /\ cfg.organizeBySections /\ SectionListed(kept[k]) =>
                    \E w \in EntityWrites("component") :
                        /\ log[w].id = kept[k].id
                        /\ log[w].path =
                              Join(BaseSegments
                                   \o <<<<"Components">>,
                                        sanitizePath(ResolvedSectionName(kept[k])),
                                        sanitizePath(kept[k].name) \o <<".md">>>>)
        /\ \A w \in EntityWrites("component") :
              \E k \in 1..Len(kept) : kept[k].id = log[w].id
        /\ indexPath \in DOMAIN vault
        /\ vault[indexPath].kind = "components-index"
        /\ vault[indexPath].total = Len(kept)
        /\ Len(vault[indexPath].entries) = Len(kept)
        /\ \A k \in 1..Len(kept) : vault[indexPath].entries[k].name = kept[k].name

\* a run with a pattern set, organizeBySections on, one component excluded and
\* the other, in section sec1, written under Components/I-O
C5_Witness ==
    /\ pc = "done"
    /\ cfg.organizeBySections /\ cfg.excludePatterns # <<>>
    /\ Len(Surviving(remote.components)) = 1
    /\ Cardinality(EntityWrites("component")) = 1
    /\ \E w \in EntityWrites("component") :
          /\ log[w].id = "c1"
          /\ log[w].path \in
                {<<"Zeplin", "/", "Components", "/", "I", "-", "O", "/",
                   "a", "-", "b", ".md">>}
    /\ vault[<<"Zeplin", "/", "Components", ".md">>].total = 1

\* C10: the path of a component or screen file holds the sanitized section name
\* as a segment between the type folder and the file name exactly when
\* organizeBySections is on and the entity has a resolved section name;
\* otherwise the file sits directly under the type folder.
C10_SectionSegment ==
    pc # "idle" =>
        \A kind \in {"component", "screen"} :
            \A w \in EntityWrites(kind) :
                LET e == Detail(RemoteList(kind), log[w].id)
                    segs == Split(log[w].path, "/")
                    typeSegs == BaseSegments \o <<<<TypeFolder(kind)>>>>
                    n == Len(typeSegs)
                IN
                /\ SubSeq(segs, 1, n) = typeSegs
                /\ segs[Len(segs)] = sanitizePath(e.name) \o <<".md">>
                /\ IF cfg.organizeBySections /\ SectionListed(e)
                   THEN /\ Len(segs) = n + 2
                        /\ segs[n + 1] = sanitizePath(ResolvedSectionName(e))
                   ELSE Len(segs) = n + 1

\* one run has written a file under a section folder and, for an entity whose
\* section is not in the list of sections, a file directly under Components
C10_Witness ==
    /\ pc = "done" /\ cfg.organizeBySections
    /\ \E w \in EntityWrites("component") :
          /\ SectionListed(Detail(remote.components, log[w].id))
          /\ Len(Split(log[w].path, "/")) = Len(BaseSegments) + 3
    /\ \E w \in EntityWrites("component") :
          /\ Detail(remote.components, log[w].id).sec = "sec9"
          /\ Len(Split(log[w].path, "/")) = Len(BaseSegments) + 2

\* the names of the fields the content of an entity holds, in order, when each
\* optional field is rendered exactly when the entity carries it
FieldsWhenPresent(kind, e) ==
    <<"Type">>
    \o If(SectionListed(e), <<"Section">>)
    \o If(kind = "screen" /\ Len(e.tags) > 0, <<"Tags">>)
    \o <<"Zeplin URL">>
    \o If(Truthy(e.description), <<"Description">>)
    \o If(Truthy(extractImageUrlObs(e)), <<"Preview">>)
    \o <<"Synced">>

\* C22: the file just written for a component or a screen holds the fields
\* type label, section name, tags (screens), deep link, description, image and
\* provenance line in this order, each optional one exactly when the entity
\* carries it; the Section line is there only when the section has a name in
\* the lookup.
C22_FieldsInOrderWhenPresent ==
    (Len(log) >= 1 /\ log[Len(log)].kind \in {"component", "screen"}) =>
        LET w == log[Len(log)]
            e == Detail(RemoteList(w.kind), w.id)
            fields == vault[w.path].fields
        IN [k \in 1..Len(fields) |-> fields[k].f] = FieldsWhenPresent(w.kind, e)


(***************************************************************************)
(* The Logseq graph.  blocks is the sequence of the blocks in the order    *)
(* they were inserted; the uuid of a block is its index.  A block is       *)
(* [parent, content, props]; pages maps a page name to [first, props],     *)
(* first being the uuid of the page's first block.  A property record has  *)
(* every key the plugin writes, a key the block does not carry holding its *)
(* absent value.                                                           *)
(***************************************************************************)
NullUuid == 0
BadUuid == -1

NoProps ==
    [zid |-> "none", ztype |-> "none", platform |-> "none",
     updated |-> 0, synced |-> 0, url |-> <<>>]

Block(parent, content, props) ==
    [parent |-> parent, content |-> content, props |-> props]

\* a parent the host can insert under
ValidUuid(blks, uuid) == uuid \in 1..Len(blks)

\* logseq.DB.q of findBlockByZeplinId: the blocks whose properties hold
\* zeplin-id = zeplinId
QueryZeplinId(blks, zeplinId) ==
    {u \in 1..Len(blks) : blks[u].props.zid = zeplinId}

\* a mutant: the lookup never finds anything
findNever(blks, zeplinId, fault) == {NullUuid}

\* a mutant: a query that throws is answered from the graph all the same
findDespiteFault(blks, zeplinId, fault) ==
    IF QueryZeplinId(blks, zeplinId) = {}
    THEN {NullUuid}
    ELSE QueryZeplinId(blks, zeplinId)

\* a mutant: the lookup looks under the first page only
findUnderFirstPage(blks, zeplinId, fault) ==
    IF fault = "query" \/ {u \in QueryZeplinId(blks, zeplinId) : blks[u].parent = 1} = {}
    THEN {NullUuid}
    ELSE {u \in QueryZeplinId(blks, zeplinId) : blks[u].parent = 1}

\* LogseqBlocksManager.findBlockByZeplinId: the values it may return.  The
\* query gives its results in no stated order and results[0] is taken; a query
\* that throws is caught and gives null.
findBlockByZeplinId(blks, zeplinId, fault) ==
    IF fault = "query" \/ QueryZeplinId(blks, zeplinId) = {}
    THEN {NullUuid}
    ELSE QueryZeplinId(blks, zeplinId)

\* a mutant: an identifier is returned although nothing was inserted
createBlockBlind(blks, parentBlockUuid, content, properties, children, fault) ==
    IF fault = "insert" \/ ~ValidUuid(blks, parentBlockUuid)
    THEN [blocks |-> blks, uuid |-> Len(blks) + 1]
    ELSE [blocks |-> Append(blks, Block(parentBlockUuid, content, properties)),
          uuid |-> Len(blks) + 1]

\* LogseqBlocksManager.createBlock: [blocks, uuid].  insertBlock gives no block
\* for a parent that does not exist, or throws (fault "insert"): both end in
\* null.  The children are created depth first, in list order.
RECURSIVE createBlock(_, _, _, _, _, _), createChildren(_, _, _)
createBlock(blks, parentBlockUuid, content, properties, children, fault) ==
    IF fault = "insert" \/ ~ValidUuid(blks, parentBlockUuid)
    THEN [blocks |-> blks, uuid |-> NullUuid]
    ELSE LET inserted == Append(blks, Block(parentBlockUuid, content, properties))
             uuid == Len(inserted)
         IN [blocks |-> createChildren(inserted, uuid, children), uuid |-> uuid]

createChildren(blks, parentBlockUuid, children) ==
    IF children = <<>> THEN blks
    ELSE LET child == Head(children) IN
         createChildren(
             createBlock(blks, parentBlockUuid, child.content,
                         child.properties, child.children, "none").blocks,
             parentBlockUuid, Tail(children))

\* a mutant: the tree replaces what the parent held, so that a second run adds
\* nothing to a page that has its blocks
createBlockTreeOnce(blks, parentBlockUuid, tree) ==
    IF \E u \in 1..Len(blks) : blks[u].parent = parentBlockUuid
    THEN blks
    ELSE createChildren(blks, parentBlockUuid, tree)

\* LogseqBlocksManager.createBlockTree
createBlockTree(blks, parentBlockUuid, tree) ==
    createChildren(blks, parentBlockUuid, tree)

\* LogseqBlocksManager.updateBlock: the host replaces the content and keeps the
\* properties; a throw of the host (fault "update") is caught
updateBlock(blks, blockUuid, content, fault) ==
    IF fault = "update" THEN blks
    ELSE [blks EXCEPT ![blockUuid].content = content]

\* a mutant: a zeplin-id among the passed properties is kept
fullPropertiesPassedWin(properties, zeplinId, clock) ==
    LET base == IF properties.some THEN properties.val ELSE NoProps IN
    [base EXCEPT !.zid = IF base.zid # "none" THEN base.zid ELSE zeplinId,
                 !.synced = clock]

\* { ...properties, 'zeplin-id': zeplinId, 'zeplin-synced': Date.now() }
fullProperties(properties, zeplinId, clock) ==
    LET base == IF properties.some THEN properties.val ELSE NoProps IN
    [base EXCEPT !.zid = zeplinId, !.synced = clock]

\* a mutant: the update path creates the passed children under the block found
upsertBlockAddsChildren(blks, parentBlockUuid, content, zeplinId, properties, children, existing, fault, clock) ==
    IF existing # NullUuid
    THEN [blocks |-> createChildren(updateBlock(blks, existing, content, fault),
                                    existing, children),
          ret |-> existing, raised |-> FALSE]
    ELSE LET made == createBlock(blks, parentBlockUuid, content,
                                 fullProperties(properties, zeplinId, clock),
                                 children, fault)
         IN [blocks |-> made.blocks, ret |-> made.uuid, raised |-> FALSE]

\* LogseqBlocksManager.upsertBlock with existing the value findBlockByZeplinId
\* returned: [blocks, ret, raised].  properties is [some, val].
upsertBlock(blks, parentBlockUuid, content, zeplinId, properties, children, existing, fault, clock) ==
    IF existing # NullUuid
    THEN LET updated == updateBlock(blks, existing, content, fault) IN
         IF properties.some /\ fault = "property"
         THEN [blocks |-> updated, ret |-> NullUuid, raised |-> TRUE]
         ELSE IF properties.some
         THEN [blocks |-> [updated EXCEPT ![existing].props.updated = clock],
               ret |-> existing, raised |-> FALSE]
         ELSE [blocks |-> updated, ret |-> existing, raised |-> FALSE]
    ELSE LET made == createBlock(blks, parentBlockUuid, content,
                                 fullProperties(properties, zeplinId, clock),
                                 children, fault)
         IN [blocks |-> made.blocks, ret |-> made.uuid, raised |-> FALSE]

\* a child of a block to create: BlockCreateInput
Child(content, children) ==
    [content |-> content, properties |-> NoProps, children |-> children]

\* LogseqPagesManager.ensurePage: [blocks, pages].  createPage makes the page
\* and its first block; an existing page gets each given property upserted.
MergeProps(old, new) ==
    [zid |-> IF new.zid # "none" THEN new.zid ELSE old.zid,
     ztype |-> IF new.ztype # "none" THEN new.ztype ELSE old.ztype,
     platform |-> IF new.platform # "none" THEN new.platform ELSE old.platform,
     updated |-> IF new.updated # 0 THEN new.updated ELSE old.updated,
     synced |-> IF new.synced # 0 THEN new.synced ELSE old.synced,
     url |-> IF new.url # <<>> THEN new.url ELSE old.url]

ensurePage(g, pageName, properties) ==
    IF pageName \in DOMAIN g.pages
    THEN [g EXCEPT !.pages[pageName].props = MergeProps(@, properties)]
    ELSE LET withFirst == Append(g.blocks, Block(NullUuid, <<>>, NoProps)) IN
         [blocks |-> withFirst,
          pages |-> Extend(g.pages, pageName,
                           [first |-> Len(withFirst), props |-> properties])]

\* LogseqPagesManager.getPageFirstBlockUuid
getPageFirstBlockUuid(g, pageName) ==
    IF pageName \in DOMAIN g.pages THEN g.pages[pageName].first ELSE NullUuid


(***************************************************************************)
(* SpecUpsert: calls of upsertBlock on a graph of two pages.  Each call    *)
(* draws its arguments, the result the lookup takes when several blocks    *)
(* match, and the store call that fails, if one does.  hist keeps the      *)
(* calls made and what each returned.                                      *)
(***************************************************************************)
MaxCalls == 2

UpsertParents == {1, 2, BadUuid}
UpsertContents == {<<"A">>, <<"B">>}
UpsertIds == {"c1", "c2"}
PassedProps ==
    [NoProps EXCEPT !.zid = "px", !.ztype = "component",
                    !.updated = 1, !.url = <<"u">>]
UpsertProperties == {None, Some(PassedProps)}
UpsertChildren ==
    {<<>>, <<Child(<<"k1">>, <<Child(<<"k2">>, <<>>)>>), Child(<<"k3">>, <<>>)>>}
Faults == {"none", "query", "insert", "update", "property"}

\* the store call named by fault is made by this call
FaultApplies(fault, existing, properties) ==
    CASE fault \in {"none", "query"} -> TRUE
      [] fault = "insert" -> existing = NullUuid
      [] fault = "update" -> existing # NullUuid
      [] fault = "property" -> existing # NullUuid /\ properties.some

InitUpsert ==
    /\ blocks = <<Block(NullUuid, <<>>, NoProps), Block(NullUuid, <<>>, NoProps)>>
    /\ pages = (<<"P", "1">> :> [first |-> 1, props |-> NoProps])
                   @@ (<<"P", "2">> :> [first |-> 2, props |-> NoProps])
    /\ hist = <<>> /\ faulted = FALSE /\ now = 1
    /\ PureOff /\ VaultOff /\ SyncOff

CallUpsertBlock ==
    /\ Len(hist) < MaxCalls
    /\ \E parent \in UpsertParents, content \in UpsertContents,
          zeplinId \in UpsertIds, properties \in UpsertProperties,
          children \in UpsertChildren, fault \in Faults :
         /\ fault # "none" => ~faulted
         /\ \E existing \in findBlockByZeplinId(blocks, zeplinId, fault) :
              /\ FaultApplies(fault, existing, properties)
              /\ LET r == upsertBlock(blocks, parent, content, zeplinId,
                                      properties, children, existing, fault, now)
                 IN /\ blocks' = r.blocks
                    /\ hist' = Append(hist,
                           [parent |-> parent, content |-> content,
                            zid |-> zeplinId, properties |-> properties,
                            children |-> children, fault |-> fault,
                            found |-> existing, ret |-> r.ret,
                            raised |-> r.raised, at |-> now,
                            before |-> blocks])
         /\ faulted' = (faulted \/ fault # "none")
    /\ now' = now + 1
    /\ UNCHANGED <<pureVars, pages, vaultVars, syncVars>>

NextUpsert == CallUpsertBlock

SpecUpsert == InitUpsert /\ [][NextUpsert]_vars

\* C1: when upsertBlock(parent, A, id) and then upsertBlock(parent, B, id) are
\* called, parent a block of the graph and no call of the store having failed,
\* exactly one block is tagged zeplin-id = id afterwards, its content is B, and
\* the second call returned the block identifier the first returned.
C1_UpsertIdempotent ==
    Len(hist) >= 2 =>
        LET first == hist[Len(hist) - 1]
            second == hist[Len(hist)]
        IN (/\ first.zid = second.zid
            /\ first.parent = second.parent
            /\ ValidUuid(first.before, first.parent)
            /\ ~faulted)
           => /\ Cardinality(QueryZeplinId(blocks, second.zid)) = 1
              /\ second.ret # NullUuid
              /\ second.ret = first.ret
              /\ blocks[second.ret].content = second.content
              /\ blocks[second.ret].props.zid = second.zid

\* upsertBlock(1, A, "c1") created block 3 and upsertBlock(1, B, "c1") has
\* then updated it
C1_Witness ==
    /\ Len(hist) = 2 /\ ~faulted
    /\ hist[1].parent = 1 /\ hist[2].parent = 1
    /\ hist[1].zid = "c1" /\ hist[2].zid = "c1"
    /\ hist[1].content = <<"A">> /\ hist[2].content = <<"B">>
    /\ hist[1].found = NullUuid /\ hist[2].found = 3
    /\ hist[2].ret = 3
    /\ blocks[3].content = <<"B">>
    /\ QueryZeplinId(blocks, "c1") = {3}

\* C19: when upsertBlock has found a block for the remote id and no call of the
\* store has failed, the block has the new content and its zeplin-synced is the
\* time of this call, whether or not properties were passed.
C19_UpdateRefreshesSynced ==
    Len(hist) >= 1 =>
        LET call == hist[Len(hist)] IN
        (call.found # NullUuid /\ ~faulted)
        => /\ call.ret = call.found
           /\ blocks[call.found].content = call.content
           /\ blocks[call.found].props.synced = call.at

\* the blocks that creating children under parentUuid appends to a graph of
\* before blocks: every child, followed by what its own children give
RECURSIVE Nested(_, _, _)
Nested(children, parentUuid, before) ==
    IF children = <<>> THEN <<>>
    ELSE LET child == Head(children)
             own == <<Block(parentUuid, child.content, child.properties)>>
                    \o Nested(child.children, before + 1, before + 1)
         IN own \o Nested(Tail(children), parentUuid, before + Len(own))

\* C20: when upsertBlock has found no block for the remote id, parent being a
\* block of the graph and the insertion not failing, the graph is the one
\* before followed by one block under parent with the given content, whose
\* properties are the passed ones with zeplin-id the remote id argument and
\* zeplin-synced the time of the call, followed by the children, nested
\* recursively and in list order; the new block is what it returns.
C20_CreatesOneBlockWithChildren ==
    Len(hist) >= 1 =>
        LET call == hist[Len(hist)]
            uuid == Len(call.before) + 1
            passed == IF call.properties.some THEN call.properties.val ELSE NoProps
        IN (call.found = NullUuid /\ call.fault # "insert"
              /\ ValidUuid(call.before, call.parent))
           => /\ call.ret = uuid
              /\ blocks = call.before
                    \o <<Block(call.parent, call.content,
                                [passed EXCEPT !.zid = call.zid, !.synced = call.at])>>
                    \o Nested(call.children, uuid, uuid)
              /\ Cardinality({k \in uuid..Len(blocks) :
                                 blocks[k].parent = call.parent}) = 1

\* upsertBlock(1, A, "c1", properties with zeplin-id "px", two children of
\* which the first has a child) on a graph without a block for c1
C20_Witness ==
    /\ Len(hist) >= 1
    /\ LET call == hist[Len(hist)] IN
       /\ call.found = NullUuid /\ call.fault = "none" /\ call.parent = 1
       /\ call.zid = "c1" /\ call.properties = Some(PassedProps)
       /\ Len(call.children) = 2
       /\ Len(blocks) = Len(call.before) + 4
       /\ blocks[call.ret].props.zid = "c1"
       /\ blocks[call.ret + 2].parent = call.ret + 1
       /\ blocks[call.ret + 3].parent = call.ret

\* C24: when upsertBlock has found a block for the remote id, whatever children
\* list is passed and whichever call of the store fails, the graph has as many
\* blocks as before, every block but the one found is as it was (so the
\* children of the one found are the same blocks, unmodified), and the block
\* found has the parent and the zeplin-id it had.
C24_UpdateKeepsChildren ==
    Len(hist) >= 1 =>
        LET call == hist[Len(hist)] IN
        call.found # NullUuid
        => /\ Len(blocks) = Len(call.before)
           /\ \A u \in 1..Len(blocks) :
                 u # call.found => blocks[u] = call.before[u]
           /\ {u \in 1..Len(blocks) : blocks[u].parent = call.found}
                 = {u \in 1..Len(call.before) : call.before[u].parent = call.found}
           /\ blocks[call.found].parent = call.before[call.found].parent
           /\ blocks[call.found].props.zid = call.before[call.found].props.zid

\* a block created with children is found by a second call that passes a
\* children list and another content: the content is replaced
C24_Witness ==
    /\ Len(hist) = 2
    /\ LET call == hist[2] IN
       /\ call.found # NullUuid /\ call.fault = "none"
       /\ call.children # <<>>
       /\ \E u \in 1..Len(call.before) : call.before[u].parent = call.found
       /\ call.before[call.found].content # call.content
       /\ blocks[call.found].content = call.content

\* C29: when the query of findBlockByZeplinId throws, the lookup gives null as
\* if no block carried the id, and upsertBlock, the parent being a block of the
\* graph, inserts a new block with the id under the parent and returns it,
\* also when blocks with that zeplin-id exist: they are left as they were.
C29_QueryFailureCreates ==
    Len(hist) >= 1 =>
        LET call == hist[Len(hist)]
            uuid == Len(call.before) + 1
        IN call.fault = "query"
           => /\ call.found = NullUuid /\ ~call.raised
              /\ ValidUuid(call.before, call.parent)
                    => /\ call.ret = uuid
                       /\ SubSeq(blocks, 1, Len(call.before)) = call.before
                       /\ blocks[uuid].parent = call.parent
                       /\ blocks[uuid].props.zid = call.zid
                       /\ QueryZeplinId(blocks, call.zid)
                             = QueryZeplinId(call.before, call.zid) \cup {uuid}

\* the block of c1 exists, the query of the second call for c1 throws: a second
\* block is tagged c1
C29_Witness ==
    /\ Len(hist) = 2
    /\ hist[1].zid = "c1" /\ hist[1].ret = 3
    /\ hist[2].zid = "c1" /\ hist[2].fault = "query"
    /\ QueryZeplinId(hist[2].before, "c1") = {3}
    /\ hist[2].ret # NullUuid /\ hist[2].ret # 3
    /\ Cardinality(QueryZeplinId(blocks, "c1")) = 2

\* C30: whenever a block of the graph carries the remote id and the query does
\* not throw, upsertBlock(parent, content, id) takes one of the blocks that
\* carry it, wherever it is, gives it the content and returns it, and creates
\* nothing: the block keeps its parent, and no block under the given parent is
\* tagged with the id unless one was before.
C30_LookupIgnoresParent ==
    Len(hist) >= 1 =>
        LET call == hist[Len(hist)] IN
        (QueryZeplinId(call.before, call.zid) # {} /\ call.fault = "none")
        => /\ call.found \in QueryZeplinId(call.before, call.zid)
           /\ call.ret = call.found
           /\ Len(blocks) = Len(call.before)
           /\ blocks[call.found].content = call.content
           /\ blocks[call.found].parent = call.before[call.found].parent
           /\ {u \in QueryZeplinId(blocks, call.zid) : blocks[u].parent = call.parent}
                 = {u \in QueryZeplinId(call.before, call.zid) :
                       call.before[u].parent = call.parent}

\* c1 was created under block 1; upsertBlock(2, B, c1) has updated that block
\* where it is, and no block under 2 is tagged c1
C30_Witness ==
    /\ Len(hist) = 2
    /\ hist[1].zid = "c1" /\ hist[1].parent = 1 /\ hist[1].ret = 3
    /\ hist[2].zid = "c1" /\ hist[2].parent = 2 /\ hist[2].fault = "none"
    /\ hist[2].content = <<"B">> /\ hist[2].ret = 3
    /\ blocks[3].parent = 1 /\ blocks[3].content = <<"B">>
    /\ {u \in QueryZeplinId(blocks, "c1") : blocks[u].parent = 2} = {}

\* C21: a call of upsertBlock that found a block returns that block unless a
\* call of the store after the update threw; a call that found none never
\* raises, and returns the block it created under the parent, or null with the
\* graph as it was when the parent is no block or the insertion failed; a call
\* raises only when a call of the store threw.
C21_ReturnsUnitOrNull ==
    Len(hist) >= 1 =>
        LET call == hist[Len(hist)]
            uuid == Len(call.before) + 1
        IN /\ call.raised => (call.fault = "property" /\ call.found # NullUuid)
           /\ (call.found # NullUuid /\ ~call.raised)
                 => (call.ret = call.found /\ ValidUuid(blocks, call.ret))
           /\ call.found = NullUuid
                 => /\ ~call.raised
                    /\ IF ValidUuid(call.before, call.parent) /\ call.fault # "insert"
                       THEN /\ call.ret = uuid
                            /\ ValidUuid(blocks, uuid)
                            /\ blocks[uuid].parent = call.parent
                            /\ blocks[uuid].props.zid = call.zid
                       ELSE call.ret = NullUuid /\ blocks = call.before

\* upsertBlock under a parent that is no block of the graph found nothing, no
\* call of the store threw, and it returned null without raising
C21_Witness ==
    /\ Len(hist) >= 1
    /\ LET call == hist[Len(hist)] IN
       /\ call.parent = BadUuid /\ call.found = NullUuid /\ call.fault = "none"
       /\ call.ret = NullUuid /\ ~call.raised
       /\ blocks = call.before


(***************************************************************************)
(* ComponentSynchronizer (Logseq): names, contents and images.             *)
(***************************************************************************)
LogseqSettings ==
    [defaultNamespace : {<<"Zeplin">>}, imageStorage : {"inline", "assets"}]

\* the remote projects of the Logseq runs
LogseqRemotes ==
    {[project |-> Project(pn, cs, ss), sections |-> RemoteSections,
      components |-> cs, screens |-> ss,
      colors |-> RemoteColors, textStyles |-> RemoteTextStyles] :
        pn \in ProjectNames,
        cs \in {<<>>} \cup
               {<<Entity("c1", n1, s1), Entity("c2", <<"x", "-", "o", "l", "d">>, NoSection)>> :
                    n1 \in {<<"a", "/", "b">>, <<"a", "-", "b">>},
                    s1 \in {NoSection, "sec1"}},
        ss \in {<<Entity("s1", <<"a", "/", "b">>, NoSection), Entity("s2", n2, "sec1")>> :
                    n2 \in {<<"a", "/", "b">>, <<"a", "-", "b">>}}}

\* the updated time the remote gives for an entity
EntityUpdated(id) == 1

\* the name in the section object of a detail, undefined when the remote has
\* no name for it
ApiSectionName(sec) ==
    IF \E i \in 1..Len(RemoteSections) : RemoteSections[i].id = sec
    THEN Some((CHOOSE r \in {RemoteSections[i] : i \in 1..Len(RemoteSections)} :
                   r.id = sec).name)
    ELSE None

\* `${namespace}/${project.name}`
projectPageName(project) == cfg.defaultNamespace \o <<"/">> \o project.name

\* `${namespace}/${project.name}/Screens/${fullScreen.name}`
screenPageName(project, fullScreen) ==
    projectPageName(project) \o <<"/", "Screens", "/">> \o fullScreen.name

buildComponentContent(component) ==
    <<"**">> \o component.name \o <<"**">>
    \o If(component.sec # NoSection,
          <<" (">> \o Interpolate(ApiSectionName(component.sec)) \o <<")">>)

\* ComponentSynchronizer.extractImageUrl.  An image is [large, original,
\* medium, url], a field the optional chain does not reach being undefined;
\* item.latest is latest_version.image and item.images the images array.
extractImageUrl(item) ==
    IF Truthy(item.image.large) THEN item.image.large
    ELSE IF Truthy(item.image.original) THEN item.image.original
    ELSE IF Truthy(item.image.medium) THEN item.image.medium
    ELSE IF Truthy(item.image.url) THEN item.image.url
    ELSE IF Truthy(item.latest.large) THEN item.latest.large
    ELSE IF Truthy(item.latest.original) THEN item.latest.original
    ELSE IF Truthy(item.latest.url) THEN item.latest.url
    ELSE IF Len(item.images) > 0
    THEN LET firstImage == item.images[1] IN
         IF Truthy(firstImage.large) THEN firstImage.large
         ELSE IF Truthy(firstImage.original) THEN firstImage.original
         ELSE IF Truthy(firstImage.url) THEN firstImage.url
         ELSE None
    ELSE None

\* `![${itemName}](${imageUrl})`
DirectImage(itemName, imageUrl) ==
    <<"![">> \o itemName \o <<"](">> \o imageUrl \o <<")">>

\* LogseqAssetsManager.downloadImage: the data URL, or null when the request
\* fails (the error is caught and logged)
downloadImage(url, fetchOk) ==
    IF fetchOk THEN Some(<<"data:", "image/png", ";base64,", "bytes of ">> \o url)
    ELSE None

\* LogseqAssetsManager.createImageMarkdown
createImageMarkdown(imagePath, altText) ==
    IF imagePath # <<>> /\ Head(imagePath) = "data:"
    THEN <<"![">> \o altText \o <<"](">> \o imagePath \o <<")">>
    ELSE <<"![">> \o altText \o <<"](", "../assets/">> \o imagePath \o <<")">>

\* a mutant: a failed download falls back to the direct link
downloadAndFormatImageFallback(imageUrl, itemName, fetchOk) ==
    IF cfg.imageStorage = "inline" /\ fetchOk
    THEN Some(createImageMarkdown(downloadImage(imageUrl, fetchOk).val, itemName))
    ELSE Some(DirectImage(itemName, imageUrl))

\* ComponentSynchronizer.downloadAndFormatImage: the content of the image
\* block or null.  Nothing in the try block throws (downloadImage catches),
\* so the fallback of the catch is never taken.
downloadAndFormatImage(imageUrl, itemName, fetchOk) ==
    IF cfg.imageStorage = "inline"
    THEN LET dataUrl == downloadImage(imageUrl, fetchOk) IN
         IF dataUrl.some THEN Some(createImageMarkdown(dataUrl.val, itemName))
         ELSE None
    ELSE Some(DirectImage(itemName, imageUrl))

G == [blocks |-> blocks, pages |-> pages]

CommitGraph(g) == blocks' = g.blocks /\ pages' = g.pages

\* ComponentSynchronizer.createProjectStructure
createProjectPages(g, project, clock) ==
    LET name == projectPageName(project)
        g1 == ensurePage(g, name,
                  [NoProps EXCEPT !.zid = project.id, !.ztype = "project",
                                  !.synced = clock])
        g2 == ensurePage(g1, name \o <<"/", "Components">>, NoProps)
        g3 == ensurePage(g2, name \o <<"/", "Screens">>, NoProps)
    IN ensurePage(g3, name \o <<"/", "Design Tokens">>, NoProps)


(***************************************************************************)
(* ComponentSynchronizer.syncProject, one action per awaited stage.  The   *)
(* remote data stay as they are between the runs.  run is [project, list,  *)
(* i, parent]; log keeps, for every item synced, what was done with it.    *)
(***************************************************************************)
IdleLogseqRun == [project |-> NoProject, list |-> <<>>, i |-> 0, parent |-> NullUuid]

\* whether the image request of this item succeeds is the network's choice
FetchOutcomes(imageUrl) ==
    IF imageUrl.some /\ cfg.imageStorage = "inline" THEN BOOLEAN ELSE {TRUE}

LogEntry(kind, full, imageUrl, fetchOk, found, unit, page) ==
    [run |-> runs, kind |-> kind, id |-> full.id, name |-> full.name,
     imageUrl |-> imageUrl, inline |-> (cfg.imageStorage = "inline"),
     fetchOk |-> fetchOk, found |-> found, ret |-> unit, page |-> page]

\* syncProject up to the end of createProjectStructure
LgStartSync ==
    /\ Idle /\ runs < MaxRuns
    /\ runs' = runs + 1
    /\ now' = now + 1
    /\ LET project == remote.project IN
       /\ run' = [IdleLogseqRun EXCEPT !.project = project]
       /\ CommitGraph(createProjectPages(G, project, now'))
       /\ pc' = AfterStructure(project)
    /\ UNCHANGED <<pureVars, hist, faulted, vaultVars, remote, cfg, log>>

\* syncComponents up to the loop
LgSyncComponentsBegin ==
    /\ pc = "components"
    /\ LET pageUuid == getPageFirstBlockUuid(
                           G, projectPageName(run.project) \o <<"/", "Components">>)
       IN /\ run' = [run EXCEPT !.list = remote.components, !.i = 1,
                                !.parent = pageUuid]
          /\ pc' = IF pageUuid = NullUuid THEN "failed" ELSE "componentItems"
    /\ UNCHANGED <<pureVars, graphVars, vaultVars, remote, cfg, runs, log, now>>

\* syncComponent
LgSyncComponent ==
    /\ pc = "componentItems" /\ run.i <= Len(run.list)
    /\ LET component == run.list[run.i]
           fullComponent == Detail(remote.components, component.id)
           content == buildComponentContent(fullComponent)
           properties ==
               [NoProps EXCEPT
                   !.zid = fullComponent.id, !.ztype = "component",
                   !.updated = EntityUpdated(fullComponent.id),
                   !.url = <<"https://app.zeplin.io/project/", run.project.id,
                             "/components?coid=", fullComponent.id>>]
           description ==
               If(fullComponent.description.some /\ fullComponent.description.val # <<>>,
                  <<Child(fullComponent.description.val, <<>>)>>)
           imageUrl == extractImageUrl(fullComponent)
       IN \E fetchOk \in FetchOutcomes(imageUrl) :
          LET imageContent ==
                  IF imageUrl.some
                  THEN downloadAndFormatImage(imageUrl.val, fullComponent.name, fetchOk)
                  ELSE None
              children ==
                  description
                  \o If(imageContent.some /\ imageContent.val # <<>>,
                        <<Child(imageContent.val, <<>>)>>)
          IN \E existing \in findBlockByZeplinId(blocks, component.id, "none") :
             LET r == upsertBlock(blocks, run.parent, content, component.id,
                                  Some(properties), children, existing, "none", now)
             IN /\ blocks' = r.blocks
                /\ log' = Append(log, LogEntry("component", fullComponent, imageUrl,
                                               fetchOk, existing, r.ret, <<>>))
    /\ run' = [run EXCEPT !.i = @ + 1]
    /\ UNCHANGED <<pureVars, pages, hist, faulted, vaultVars, remote, cfg, pc,
                   runs, now>>

LgSyncComponentsEnd ==
    /\ pc = "componentItems" /\ run.i > Len(run.list)
    /\ pc' = AfterComponents(run.project)
    /\ UNCHANGED <<pureVars, graphVars, vaultVars, remote, cfg, run, runs, log, now>>

\* syncScreens up to the loop
LgSyncScreensBegin ==
    /\ pc = "screens"
    /\ LET screensIndexPageName == projectPageName(run.project) \o <<"/", "Screens">>
           g1 == ensurePage(G, screensIndexPageName, NoProps)
           indexPageUuid == getPageFirstBlockUuid(g1, screensIndexPageName)
       IN /\ CommitGraph(g1)
          /\ run' = [run EXCEPT !.list = remote.screens, !.i = 1,
                                !.parent = indexPageUuid]
          /\ pc' = IF indexPageUuid = NullUuid THEN "failed" ELSE "screenItems"
    /\ UNCHANGED <<pureVars, hist, faulted, vaultVars, remote, cfg, runs, log, now>>

\* syncScreenAsPage
LgSyncScreenAsPage ==
    /\ pc = "screenItems" /\ run.i <= Len(run.list)
    /\ LET screen == run.list[run.i]
           fullScreen == Detail(remote.screens, screen.id)
           name == screenPageName(run.project, fullScreen)
           zeplinUrl == <<"https://app.zeplin.io/project/", run.project.id,
                          "/screen/", fullScreen.id>>
           g1 == ensurePage(G, name,
                     [NoProps EXCEPT !.zid = fullScreen.id, !.ztype = "screen",
                                     !.updated = EntityUpdated(fullScreen.id),
                                     !.url = zeplinUrl])
           screenPageBlockUuid == getPageFirstBlockUuid(g1, name)
           link == createBlock(g1.blocks, run.parent, <<"[[">> \o name \o <<"]]">>,
                               [NoProps EXCEPT !.zid = fullScreen.id,
                                               !.ztype = "screen"],
                               <<>>, "none")
           imageUrl == extractImageUrl(fullScreen)
       IN \E fetchOk \in FetchOutcomes(imageUrl) :
          LET imageContent ==
                  IF imageUrl.some
                  THEN downloadAndFormatImage(imageUrl.val, fullScreen.name, fetchOk)
                  ELSE None
              children ==
                  <<Child(<<"**Zeplin URL:** [View in Zeplin](">> \o zeplinUrl
                              \o <<")">>, <<>>)>>
                  \o If(fullScreen.description.some /\ fullScreen.description.val # <<>>,
                        <<Child(<<"**Description:** ">> \o fullScreen.description.val,
                                <<>>)>>)
                  \o If(Len(fullScreen.tags) > 0,
                        <<Child(<<"**Tags:** ">> \o HashTags(fullScreen.tags), <<>>)>>)
                  \o If(fullScreen.sec # NoSection,
                        <<Child(<<"**Section:** ">>
                                    \o Interpolate(ApiSectionName(fullScreen.sec)),
                                <<>>)>>)
                  \o If(imageContent.some /\ imageContent.val # <<>>,
                        <<Child(imageContent.val, <<>>)>>)
          IN /\ blocks' = createBlockTree(link.blocks, screenPageBlockUuid, children)
             /\ pages' = g1.pages
             /\ log' = Append(log, LogEntry("screen", fullScreen, imageUrl, fetchOk,
                                            NullUuid, screenPageBlockUuid, name))
    /\ run' = [run EXCEPT !.i = @ + 1]
    /\ UNCHANGED <<pureVars, hist, faulted, vaultVars, remote, cfg, pc, runs, now>>

LgSyncScreensEnd ==
    /\ pc = "screenItems" /\ run.i > Len(run.list)
    /\ pc' = "tokens"
    /\ UNCHANGED <<pureVars, graphVars, vaultVars, remote, cfg, run, runs, log, now>>

\* the blocks of a list of colors or text styles, created one after the other
RECURSIVE createTokens(_, _, _, _)
createTokens(blks, pageUuid, tokens, ztype) ==
    IF tokens = <<>> THEN blks
    ELSE createTokens(
             createBlock(blks, pageUuid, Head(tokens).content,
                         [NoProps EXCEPT !.zid = Head(tokens).id, !.ztype = ztype],
                         <<>>, "none").blocks,
             pageUuid, Tail(tokens), ztype)

\* syncDesignTokens
LgSyncDesignTokens ==
    /\ pc = "tokens"
    /\ LET pageUuid == getPageFirstBlockUuid(
                           G, projectPageName(run.project) \o <<"/", "Design Tokens">>)
           colors ==
               [i \in 1..Len(remote.colors) |->
                   [id |-> remote.colors[i].id,
                    content |->
                        (IF remote.colors[i].name.some /\ remote.colors[i].name.val # <<>>
                         THEN remote.colors[i].name.val ELSE <<"Unnamed">>)
                        \o <<": ">>
                        \o rgbaToHex(remote.colors[i].r, remote.colors[i].g,
                                     remote.colors[i].b, remote.colors[i].a)]]
           styles ==
               [i \in 1..Len(remote.textStyles) |->
                   [id |-> remote.textStyles[i].id,
                    content |-> remote.textStyles[i].name
                                    \o <<": ", "font of ", remote.textStyles[i].id>>]]
           b1 == IF run.project.number_of_colors > 0
                 THEN createTokens(
                          createBlock(blocks, pageUuid,
                                      <<"## Colors (", ToString(Len(colors)), ")">>,
                                      NoProps, <<>>, "none").blocks,
                          pageUuid, colors, "color")
                 ELSE blocks
           b2 == IF run.project.number_of_text_styles > 0
                 THEN createTokens(
                          createBlock(b1, pageUuid,
                                      <<"## Text Styles (", ToString(Len(styles)), ")">>,
                                      NoProps, <<>>, "none").blocks,
                          pageUuid, styles, "text-style")
                 ELSE b1
       IN /\ blocks' = IF pageUuid = NullUuid THEN blocks ELSE b2
          /\ pc' = IF pageUuid = NullUuid THEN "failed" ELSE "done"
    /\ UNCHANGED <<pureVars, pages, hist, faulted, vaultVars, remote, cfg, run,
                   runs, log, now>>

InitLogseq ==
    /\ PureOff /\ VaultOff
    /\ blocks = <<>> /\ pages = NoMap /\ hist = <<>> /\ faulted = FALSE
    /\ remote \in LogseqRemotes
    /\ cfg \in LogseqSettings
    /\ pc = "idle" /\ run = IdleLogseqRun /\ runs = 0 /\ log = <<>> /\ now = 0

NextLogseq ==
    \/ LgStartSync
    \/ LgSyncComponentsBegin
    \/ LgSyncComponent
    \/ LgSyncComponentsEnd
    \/ LgSyncScreensBegin
    \/ LgSyncScreenAsPage
    \/ LgSyncScreensEnd
    \/ LgSyncDesignTokens

SpecLogseq == InitLogseq /\ [][NextLogseq]_vars


(***************************************************************************)
(* Claims about the Logseq adapter.                                        *)
(***************************************************************************)
\* the blocks and the pages tagged with a remote id, by type
BlockUnits(ztype, id) ==
    {u \in 1..Len(blocks) :
        blocks[u].props.zid = id /\ blocks[u].props.ztype = ztype}
PageUnits(ztype, id) ==
    {n \in DOMAIN pages : pages[n].props.zid = id /\ pages[n].props.ztype = ztype}

RemoteIds == {"p1", "c1", "c2", "s1", "s2", "col1", "ts1"}
UnitTypes == {"project", "component", "screen", "color", "text-style"}

\* C2: after any number of runs of syncProject on unchanged remote data no
\* component block, screen page, screen index link, color block or text-style
\* block carrying a given zeplin-id exists more than once.
C2_LogseqOneUnitPerId ==
    pc = "done" =>
        \A ztype \in UnitTypes, id \in RemoteIds :
            /\ Cardinality(BlockUnits(ztype, id)) <= 1
            /\ Cardinality(PageUnits(ztype, id)) <= 1

\* the blocks directly under a block
ChildrenOf(uuid) == {u \in 1..Len(blocks) : blocks[u].parent = uuid}

\* C6: with image storage inline, when the request for the image of a
\* component or screen fails, the unit is still created, one of its blocks is
\* the direct link ![name](url), and the run does not abort.
C6_InlineFallback ==
    /\ pc # "failed"
    /\ \A k \in 1..Len(log) :
          LET e == log[k] IN
          (/\ e.inline /\ e.imageUrl.some /\ ~e.fetchOk
           /\ e.kind = "component" => e.found = NullUuid)
          => /\ e.ret # NullUuid
             /\ \E u \in ChildrenOf(e.ret) :
                   blocks[u].content = DirectImage(e.name, e.imageUrl.val)

\* C9 (Logseq): the page of a screen is <namespace>/<project>/Screens/<name>,
\* four segments, whatever characters the project name and the screen name hold.
C9_OneSegmentPerName ==
    \A k \in 1..Len(log) :
        log[k].kind = "screen" => Len(Split(log[k].page, "/")) = 4

\* the link blocks of a screen under the first block of the Screens index
ScreenLinks(blks, indexPageUuid, id) ==
    {u \in 1..Len(blks) : /\ blks[u].parent = indexPageUuid
                          /\ blks[u].props.zid = id
                          /\ blks[u].props.ztype = "screen"}

\* the blocks under uuid in a graph of blocks blks
ChildrenIn(blks, uuid) == {u \in 1..Len(blks) : blks[u].parent = uuid}

\* one call of syncScreenAsPage for the screen at run.i
C23_Step ==
    (pc = "screenItems" /\ run.i <= Len(run.list) /\ run'.i = run.i + 1) =>
        LET fullScreen == Detail(remote.screens, run.list[run.i].id)
            name == screenPageName(run.project, fullScreen)
        IN /\ Len(blocks') > Len(blocks)
           /\ SubSeq(blocks', 1, Len(blocks)) = blocks
           /\ Cardinality(ScreenLinks(blocks', run.parent, fullScreen.id))
                 = Cardinality(ScreenLinks(blocks, run.parent, fullScreen.id)) + 1
           /\ name \in DOMAIN pages =>
                 /\ pages'[name].first = pages[name].first
                 /\ ChildrenIn(blocks, pages[name].first)
                       \subseteq ChildrenIn(blocks', pages[name].first)
                 /\ Cardinality(ChildrenIn(blocks', pages[name].first))
                       > Cardinality(ChildrenIn(blocks, pages[name].first))

\* C23: every sync of a screen, also of one that has its page and its link,
\* leaves every block of the graph as it was, adds exactly one link block for
\* the screen under the Screens index and at least one child block under the
\* first block of the screen page: both counts grow with every run.
C23_ResyncOnlyAppends == [][C23_Step]_vars

\* the second run has synced screen s1 again: the index holds two links for it
\* and its page more child blocks than the one run gave it
C23_Witness ==
    /\ runs = 2 /\ pc = "screenItems" /\ run.i > 1
    /\ Cardinality(ScreenLinks(blocks, run.parent, "s1")) = 2
    /\ LET name == screenPageName(run.project, Detail(remote.screens, "s1")) IN
       /\ name \in DOMAIN pages
       /\ Cardinality(ChildrenIn(blocks, pages[name].first)) >= 6


(***************************************************************************)
(* SpecImage: extractImageUrl of both adapters applied to an entity whose  *)
(* primary image, latest-version image and images array hold any           *)
(* combination of fields.  A field of the primary image may also be the    *)
(* empty string.                                                           *)
(***************************************************************************)
FieldValues(place, field, withEmpty) ==
    {None, Some(<<place, field>>)} \cup (IF withEmpty THEN {Some(<<>>)} ELSE {})

Images(place, withEmpty) ==
    [large : FieldValues(place, "large", withEmpty),
     original : FieldValues(place, "original", withEmpty),
     medium : FieldValues(place, "medium", withEmpty),
     url : FieldValues(place, "url", withEmpty)]

ImageItems ==
    [image : Images("primary", TRUE),
     latest : Images("latest", FALSE),
     images : {<<>>} \cup {<<im>> : im \in Images("first", FALSE)}]

InitImage ==
    /\ arg \in ImageItems
    /\ ret = Null /\ fpc = "call"
    /\ GraphOff /\ VaultOff /\ SyncOff /\ now = 0

CallExtractImageUrl ==
    /\ fpc = "call"
    /\ ret' = [adapter |-> "logseq", url |-> extractImageUrl(arg)]
    /\ fpc' = "done"
    /\ UNCHANGED <<arg, graphVars, vaultVars, syncVars, now>>

CallExtractImageUrlObs ==
    /\ fpc = "call"
    /\ ret' = [adapter |-> "obsidian", url |-> extractImageUrlObs(arg)]
    /\ fpc' = "done"
    /\ UNCHANGED <<arg, graphVars, vaultVars, syncVars, now>>

NextImage == CallExtractImageUrl \/ CallExtractImageUrlObs

SpecImage == InitImage /\ [][NextImage]_vars

\* the first field of an image that holds a URL, in the order large thumbnail,
\* original URL, medium thumbnail, generic URL
FirstOf(image) ==
    IF Truthy(image.large) THEN image.large
    ELSE IF Truthy(image.original) THEN image.original
    ELSE IF Truthy(image.medium) THEN image.medium
    ELSE IF Truthy(image.url) THEN image.url
    ELSE None

HasCandidate(image) == FirstOf(image).some

NoFieldsAtAll(item) ==
    /\ ~HasCandidate(item.image) /\ ~HasCandidate(item.latest)
    /\ \A i \in 1..Len(item.images) : ~HasCandidate(item.images[i])

\* C11: for the primary image extractImageUrl of either adapter returns the
\* first field that holds a URL in the order large thumbnail, original URL,
\* medium thumbnail, generic URL, and null for an entity with no image field
\* at all.
C11_PrimaryImagePriority ==
    fpc = "done" =>
        /\ HasCandidate(arg.image) => ret.url = FirstOf(arg.image)
        /\ NoFieldsAtAll(arg) => ret.url = None

\* an entity with a medium and a large thumbnail gave the large one, and an
\* entity with only an original URL gave that URL
C11_Witness ==
    /\ fpc = "done"
    /\ \/ /\ Truthy(arg.image.large) /\ Truthy(arg.image.medium)
          /\ ret.url = Some(<<"primary", "large">>)
       \/ /\ arg.image = [NoImage EXCEPT !.original = Some(<<"primary", "original">>)]
          /\ ret.url = Some(<<"primary", "original">>)

\* C12: when the primary image holds no URL the result is the first URL of the
\* latest-version image, else the first URL of the first entry of the images
\* array, each in the order large, original, medium, generic URL; it is null
\* only when none of the three places holds a URL.
C12_ImageFallback ==
    fpc = "done" =>
        ret.url = IF HasCandidate(arg.image) THEN FirstOf(arg.image)
                  ELSE IF HasCandidate(arg.latest) THEN FirstOf(arg.latest)
                  ELSE IF Len(arg.images) > 0 THEN FirstOf(arg.images[1])
                  ELSE None


(***************************************************************************)
(* SpecRgba: rgbaToHex applied to channels of [0,1], among them 0, 1, the  *)
(* values that round to one hex digit and the halves.                      *)
(***************************************************************************)
Channels == {0, 1, 2, 31, 32, 255, 509, ChannelOne}

InitRgba ==
    /\ arg \in [r : Channels, g : Channels, b : Channels, a : Channels]
    /\ ret = Null /\ fpc = "call"
    /\ GraphOff /\ VaultOff /\ SyncOff /\ now = 0

CallRgbaToHex ==
    /\ fpc = "call"
    /\ ret' = rgbaToHex(arg.r, arg.g, arg.b, arg.a)
    /\ fpc' = "done"
    /\ UNCHANGED <<arg, graphVars, vaultVars, syncVars, now>>

NextRgba == CallRgbaToHex

SpecRgba == InitRgba /\ [][NextRgba]_vars

\* the two hex digits of round(channel * 255)
TwoDigits(k) ==
    <<HexDigit(Round255(k) \div 16), HexDigit(Round255(k) % 16)>>

RgbaOf(r, g, b, a) == [r |-> r, g |-> g, b |-> b, a |-> a]

\* C13: rgbaToHex gives "#" and two zero-padded lowercase hex digits of
\* round(channel * 255) for r, g and b, followed by those of a exactly when
\* a < 1; (0,0,0,1) gives #000000, (1,1,1,1) #ffffff, (1,0,0,0.5) #ff000080 and
\* (0,1,0,1) #00ff00.
C13_RgbaToHex ==
    fpc = "done" =>
        /\ ret = <<"#">> \o TwoDigits(arg.r) \o TwoDigits(arg.g) \o TwoDigits(arg.b)
                     \o (IF arg.a < ChannelOne THEN TwoDigits(arg.a) ELSE <<>>)
        /\ Len(ret) = IF arg.a < ChannelOne THEN 9 ELSE 7
        /\ arg = RgbaOf(0, 0, 0, ChannelOne)
               => ret = <<"#", "0", "0", "0", "0", "0", "0">>
        /\ arg = RgbaOf(ChannelOne, ChannelOne, ChannelOne, ChannelOne)
               => ret = <<"#", "f", "f", "f", "f", "f", "f">>
        /\ arg = RgbaOf(ChannelOne, 0, 0, 255)
               => ret = <<"#", "f", "f", "0", "0", "0", "0", "8", "0">>
        /\ arg = RgbaOf(0, ChannelOne, 0, ChannelOne)
               => ret = <<"#", "0", "0", "f", "f", "0", "0">>

\* (1, 0, 0, 0.5) has been converted to #ff000080
C13_Witness ==
    /\ fpc = "done"
    /\ arg = RgbaOf(ChannelOne, 0, 0, 255)
    /\ ret = <<"#", "f", "f", "0", "0", "0", "0", "8", "0">>


(***************************************************************************)
(* SpecRun: handleSync and syncProject of both plugins, call by call.      *)
(* Between two actions the code is suspended at one awaited call,          *)
(* run.awaiting; pc names its call site.  An action is the continuation of *)
(* that call: what the code does when the call resolves, up to the next    *)
(* awaited call, which it starts.  A call may also fail.  hist is the      *)
(* sequence of what happened since handleSync was invoked: calls started,  *)
(* ended and failed, and the messages shown to the user.                   *)
(***************************************************************************)
Op(kind, what, id) == [kind |-> kind, what |-> what, id |-> id]
NoOp == Op("none", "none", "none")

Ev(ev, op, msg) ==
    [ev |-> ev, kind |-> op.kind, what |-> op.what, id |-> op.id, msg |-> msg]

\* new Notice(text) / logseq.UI.showMsg(text)
Notice(text) == Ev("notice", Op("ui", "notice", "none"), text)

\* a mutant: the next call is started while the awaited one is still running
ThenEarly(awaited, op) == <<Ev("start", op, <<>>), Ev("end", awaited, <<>>)>>

\* await: the awaited call has ended, then the next one is started
Then(awaited, op) == <<Ev("end", awaited, <<>>), Ev("start", op, <<>>)>>

RunComponents ==
    <<Entity("c1", <<"a", "/", "b">>, "sec1"),
      Entity("c2", <<"x", "-", "o", "l", "d">>, NoSection),
      Entity("c3", <<"a", "-", "b">>, NoSection)>>
RunScreens == <<Entity("s1", <<"a", "/", "b">>, NoSection)>>

RunRemote(cs, listed) ==
    [project |-> Project(<<"P">>, cs, RunScreens),
     projects |-> IF listed
                  THEN <<Project(<<"P">>, cs, RunScreens),
                         [Project(<<"Q">>, <<>>, <<>>) EXCEPT !.id = "p2"]>>
                  ELSE <<>>,
     sections |-> RemoteSections, components |-> cs, screens |-> RunScreens,
     colors |-> RemoteColors, textStyles |-> RemoteTextStyles]

RunRemotes == {RunRemote(cs, listed) : cs \in {<<>>, RunComponents}, listed \in BOOLEAN}

RunSettings ==
    [adapter : {"obsidian", "logseq"},
     zeplinToken : {<<>>, <<"token">>},
     defaultFolder : {<<"Zeplin">>},
     defaultNamespace : {<<"Zeplin">>},
     imageStorage : {"inline"},
     templateFormat : {"detailed"},
     excludePatterns : {<<"*", "-", "o", "l", "d">>},
     createProjectFolder : {TRUE},
     organizeBySections : {TRUE}]

\* the messages of the errors ZeplinClient.handleError throws
RemoteErrors ==
    {<<"Resource not found.">>,
     <<"Unable to reach Zeplin API. Check your internet connection.">>}

\* the message of an error of the vault or of the graph store
StoreErrors == {<<"store error">>}

IdleRunState ==
    [project |-> NoProject, stage |-> "none", sectionMap |-> NoMap,
     list |-> <<>>, skipped |-> 0, i |-> 0, entries |-> <<>>,
     parent |-> NullUuid, full |-> Null, filePath |-> <<>>, content |-> <<>>,
     image |-> None, error |-> <<>>, awaiting |-> NoOp]

\* a mutant: a client is made whatever the token
initializeClientAlways(settings) == TRUE

\* initializeClient: a client is made unless the token is empty
initializeClient(settings) == settings.zeplinToken # <<>>

\* the code is suspended at op from now on
Goto(op, r) ==
    /\ pc' = op.what
    /\ run' = [r EXCEPT !.awaiting = op]
    /\ hist' = hist \o Then(run.awaiting, op)

\* the same when nothing is awaited before
Begin(events, op, r) ==
    /\ pc' = op.what
    /\ run' = [r EXCEPT !.awaiting = op]
    /\ hist' = events \o <<Ev("start", op, <<>>)>>

\* handleSync returns
Return(events) ==
    /\ pc' = "idle"
    /\ run' = IdleRunState
    /\ hist' = events

\* handleSync up to getProjects
RunHandleSync ==
    /\ pc = "idle" /\ runs < MaxRuns
    /\ runs' = runs + 1 /\ now' = now + 1 /\ log' = <<>>
    /\ IF ~initializeClient(cfg)
       THEN Return(<<Notice(<<"Please configure your Zeplin API token in settings">>)>>)
       ELSE Begin(<<Notice(<<"Fetching Zeplin projects...">>)>>,
                  Op("fetch", "getProjects", "none"), IdleRunState)
    /\ UNCHANGED <<pureVars, blocks, pages, faulted, vaultVars, remote, cfg>>

\* getProjects has resolved
RunProjectsFetched ==
    /\ pc = "getProjects"
    /\ IF Len(remote.projects) = 0
       THEN Return(hist \o <<Ev("end", run.awaiting, <<>>),
                             Notice(<<"No Zeplin projects found">>)>>)
       ELSE Goto(Op("ui", "picker", "none"), run)
    /\ UNCHANGED <<pureVars, blocks, pages, faulted, vaultVars, remote, cfg,
                   runs, log, now>>

\* projects.find(p => p.id === projectId)
FindProject(projects, projectId) ==
    CHOOSE q \in {projects[k] : k \in 1..Len(projects)} : q.id = projectId

\* the values the picker may resolve with: null (Cancel) or the id of the
\* option selected when Sync is clicked.  Sync with no option selected shows a
\* message and leaves the picker open: it does not resolve.
PickerResults == {Null} \cup {remote.projects[k].id : k \in 1..Len(remote.projects)}

\* a mutant: a cancelled picker syncs the first project of the list
RunPickedCancelSyncs ==
    /\ pc = "picker"
    /\ \E projectId \in PickerResults :
          LET selectedProject ==
                  IF projectId = Null THEN remote.projects[1]
                  ELSE FindProject(remote.projects, projectId)
          IN Begin(hist \o <<Ev("end", run.awaiting,
                                 IF projectId = Null THEN <<>> ELSE <<projectId>>),
                             Notice(<<"Syncing project: ">> \o selectedProject.name
                                        \o <<"...">>)>>,
                   Op("fetch", "getProject", selectedProject.id), run)
    /\ UNCHANGED <<pureVars, blocks, pages, faulted, vaultVars, remote, cfg,
                   runs, log, now>>

\* the project picker has resolved: a project of the list or null.  The end
\* of the picker carries what it resolved with.
RunPicked ==
    /\ pc = "picker"
    /\ \E projectId \in PickerResults :
          IF projectId = Null
          THEN Return(hist \o <<Ev("end", run.awaiting, <<>>)>>)
          ELSE LET selectedProject == FindProject(remote.projects, projectId)
               IN Begin(hist \o <<Ev("end", run.awaiting, <<projectId>>),
                                  Notice(<<"Syncing project: ">> \o selectedProject.name
                                             \o <<"...">>)>>,
                        Op("fetch", "getProject", projectId), run)
    /\ UNCHANGED <<pureVars, blocks, pages, faulted, vaultVars, remote, cfg,
                   runs, log, now>>

\* syncProject: getProject has resolved with the project of the id asked for
RunProjectFetched ==
    /\ pc = "getProject"
    /\ Goto(Op("write", "structure", "none"),
            [run EXCEPT !.project = FindProject(remote.projects, run.awaiting.id)])
    /\ UNCHANGED <<pureVars, blocks, pages, faulted, vaultVars, remote, cfg,
                   runs, log, now>>

\* the first call of a stage of the Obsidian synchronizer
ObsStageOp(project, stage) ==
    IF stage \in {"components", "screens"} THEN Op("fetch", "getSections", stage)
    ELSE IF project.number_of_colors > 0 THEN Op("fetch", "getColors", "none")
    ELSE IF project.number_of_text_styles > 0 THEN Op("fetch", "getTextStyles", "none")
    ELSE Op("write", "writeTokens", "none")

\* createProjectStructure has resolved
ObsRunStructureDone ==
    /\ pc = "structure" /\ cfg.adapter = "obsidian"
    /\ Commit(createProjectStructure(FS, run.project, now))
    /\ LET stage == AfterStructure(run.project) IN
       Goto(ObsStageOp(run.project, stage), [run EXCEPT !.stage = stage])
    /\ UNCHANGED <<pureVars, blocks, pages, faulted, remote, cfg, runs, now>>

\* syncComponents / syncScreens: getSections has resolved
ObsRunSectionsFetched ==
    /\ pc = "getSections"
    /\ Goto(Op("fetch", "getList", run.stage),
            [run EXCEPT !.sectionMap = sectionMapOf(remote.sections)])
    /\ UNCHANGED <<pureVars, blocks, pages, faulted, vaultVars, remote, cfg,
                   runs, log, now>>

StageList(stage) == IF stage = "components" THEN remote.components ELSE remote.screens
StageFolder(stage) == IF stage = "components" THEN "Components" ELSE "Screens"
StageKind(stage) == IF stage = "components" THEN "component" ELSE "screen"
StageIndex(stage) ==
    IF stage = "components" THEN "components-index" ELSE "screens-index"
StageAfter(project, stage) ==
    IF stage = "components" THEN AfterComponents(project) ELSE "tokens"

\* the call after an item of the Obsidian loop, or after the list when it is
\* empty: the detail of the next item or the index file
ObsLoopOp(list, i, stage) ==
    IF i <= Len(list) THEN Op("fetch", "getDetail", list[i].id)
    ELSE Op("write", "writeIndex", stage)

\* getComponents / getScreens has resolved: the filter, then the loop
ObsRunListFetched ==
    /\ pc = "getList" /\ cfg.adapter = "obsidian"
    /\ LET list == StageList(run.stage)
           filtered == Filter(list, parsePatterns(cfg.excludePatterns))
       IN Goto(ObsLoopOp(filtered, 1, run.stage),
               [run EXCEPT !.list = filtered,
                           !.skipped = Len(list) - Len(filtered),
                           !.i = 1, !.entries = <<>>])
    /\ UNCHANGED <<pureVars, blocks, pages, faulted, vaultVars, remote, cfg,
                   runs, log, now>>

\* getComponent / getScreen has resolved: the section name, the path and the
\* content, then writeFile
ObsRunDetailFetched ==
    /\ pc = "getDetail" /\ cfg.adapter = "obsidian"
    /\ LET full == populateSection(Detail(StageList(run.stage), run.list[run.i].id),
                                   run.sectionMap)
       IN Goto(Op("write", "writeItem", full.id),
               [run EXCEPT
                   !.full = full,
                   !.filePath = itemPath(obsTypePath(run.project, StageFolder(run.stage)),
                                         full),
                   !.content = IF run.stage = "components"
                               THEN buildComponentMarkdown(run.project, full, now)
                               ELSE buildScreenMarkdown(run.project, full, now)])
    /\ UNCHANGED <<pureVars, blocks, pages, faulted, vaultVars, remote, cfg,
                   runs, log, now>>

\* writeFile of an item has resolved: the line of the index, then the next item
ObsRunItemWritten ==
    /\ pc = "writeItem"
    /\ Commit(writeFile(FS, run.filePath, File(StageKind(run.stage), run.content),
                        [kind |-> StageKind(run.stage), id |-> run.full.id]))
    /\ Goto(ObsLoopOp(run.list, run.i + 1, run.stage),
            [run EXCEPT !.i = @ + 1,
                        !.entries = Append(@, [link |-> RemoveFirst(run.filePath, ".md"),
                                               name |-> run.full.name])])
    /\ UNCHANGED <<pureVars, blocks, pages, faulted, remote, cfg, runs, now>>

\* writeFile of the index has resolved: the stage is over
ObsRunIndexWritten ==
    /\ pc = "writeIndex"
    /\ Commit(writeFile(FS, obsTypePath(run.project, StageFolder(run.stage)) \o <<".md">>,
                        IndexFile(StageIndex(run.stage), run.entries,
                                  Len(run.list), run.skipped),
                        NoUnit(StageIndex(run.stage))))
    /\ LET stage == StageAfter(run.project, run.stage) IN
       Goto(ObsStageOp(run.project, stage), [run EXCEPT !.stage = stage])
    /\ UNCHANGED <<pureVars, blocks, pages, faulted, remote, cfg, runs, now>>


\* syncProject returns to handleSync
Resolve(settled, r) ==
    /\ pc' = "resolved"
    /\ run' = [r EXCEPT !.awaiting = NoOp]
    /\ hist' = Append(hist, settled)

\* a mutant: the catch of syncProject does not throw again
RejectSwallowed(msg) ==
    /\ pc' = "resolved"
    /\ run' = [run EXCEPT !.awaiting = NoOp]
    /\ hist' = Append(hist, Ev("fail", run.awaiting, msg))

\* a mutant: the call that failed is made again
RejectRetried(msg) ==
    /\ pc' = pc
    /\ run' = run
    /\ hist' = hist \o <<Ev("fail", run.awaiting, msg), Ev("start", run.awaiting, <<>>)>>

\* an error leaves syncProject for the catch of handleSync
Reject(msg) ==
    /\ pc' = "rejected"
    /\ run' = [run EXCEPT !.error = msg, !.awaiting = NoOp]
    /\ hist' = Append(hist, Ev("fail", run.awaiting, msg))

\* the awaited call has failed and the failure was caught where it happened:
\* the code goes on to the next call
GotoCaught(msg, op, r) ==
    /\ pc' = op.what
    /\ run' = [r EXCEPT !.awaiting = op]
    /\ hist' = hist \o <<Ev("fail", run.awaiting, msg), Ev("start", op, <<>>)>>

\* the content of the design tokens file
obsTokensContent(project) ==
    If(project.number_of_colors > 0,
       [i \in 1..Len(remote.colors) |->
           Field("Color",
                 (IF Truthy(remote.colors[i].name) THEN remote.colors[i].name.val
                  ELSE <<"Unnamed">>)
                 \o <<": ">>
                 \o rgbaToHex(remote.colors[i].r, remote.colors[i].g,
                              remote.colors[i].b, remote.colors[i].a))])
    \o If(project.number_of_text_styles > 0,
          [i \in 1..Len(remote.textStyles) |->
              Field("Text Style", remote.textStyles[i].name)])

\* syncDesignTokens: getColors has resolved
RunColorsFetched ==
    /\ pc = "getColors"
    /\ Goto(IF cfg.adapter = "logseq" THEN Op("write", "colorBlocks", "none")
            ELSE IF run.project.number_of_text_styles > 0
            THEN Op("fetch", "getTextStyles", "none")
            ELSE Op("write", "writeTokens", "none"),
            run)
    /\ UNCHANGED <<pureVars, blocks, pages, faulted, vaultVars, remote, cfg,
                   runs, log, now>>

\* syncDesignTokens: getTextStyles has resolved
RunTextStylesFetched ==
    /\ pc = "getTextStyles"
    /\ Goto(IF cfg.adapter = "logseq" THEN Op("write", "styleBlocks", "none")
            ELSE Op("write", "writeTokens", "none"),
            run)
    /\ UNCHANGED <<pureVars, blocks, pages, faulted, vaultVars, remote, cfg,
                   runs, log, now>>

\* writeFile of the design tokens has resolved: syncProject is over
ObsRunTokensWritten ==
    /\ pc = "writeTokens"
    /\ Commit(writeFile(FS, obsTypePath(run.project, "Design Tokens") \o <<".md">>,
                        File("tokens", obsTokensContent(run.project)),
                        NoUnit("tokens")))
    /\ Resolve(Ev("end", run.awaiting, <<>>), run)
    /\ UNCHANGED <<pureVars, blocks, pages, faulted, remote, cfg, runs, now>>

\* a call of the remote source fails: the client rethrows, syncProject
\* rethrows
RunFetchRejects ==
    /\ pc \in {"getProjects", "getProject", "getSections", "getList",
               "getDetail", "getColors", "getTextStyles"}
    /\ ~faulted /\ faulted' = TRUE
    /\ \E msg \in RemoteErrors : Reject(msg)
    /\ UNCHANGED <<pureVars, blocks, pages, vaultVars, remote, cfg, runs, log, now>>

\* a call of the vault fails (createFolder, create, modify), or ensurePage of
\* createProjectStructure throws: nothing catches it before handleSync
RunStoreRejects ==
    /\ \/ cfg.adapter = "obsidian"
          /\ pc \in {"structure", "writeItem", "writeIndex", "writeTokens"}
       \/ cfg.adapter = "logseq" /\ pc = "structure"
    /\ ~faulted /\ faulted' = TRUE
    /\ \E msg \in StoreErrors : Reject(msg)
    /\ UNCHANGED <<pureVars, blocks, pages, vaultVars, remote, cfg, runs, log, now>>

\* handleSync after syncProject has resolved
RunSucceeded ==
    /\ pc = "resolved"
    /\ Return(Append(hist, Notice(<<"Successfully synced ">> \o run.project.name
                                      \o <<"!">>)))
    /\ UNCHANGED <<pureVars, blocks, pages, faulted, vaultVars, remote, cfg,
                   runs, log, now>>

\* the catch of handleSync
RunFailed ==
    /\ pc = "rejected"
    /\ Return(Append(hist, Notice(<<"Sync failed: ">> \o run.error)))
    /\ UNCHANGED <<pureVars, blocks, pages, faulted, vaultVars, remote, cfg,
                   runs, log, now>>


(***************************************************************************)
(* The continuations of ComponentSynchronizer (Logseq).  A call of the     *)
(* graph store that throws inside LogseqBlocksManager or inside            *)
(* downloadImage is caught there: the caller gets null or false and goes   *)
(* on.  At most one call fails in a behaviour, remote or local.            *)
(***************************************************************************)
\* the first call of a stage of the Logseq synchronizer
LgStageOp(stage) ==
    IF stage \in {"components", "screens"} THEN Op("fetch", "getList", stage)
    ELSE Op("read", "firstBlock", stage)

\* the call after an item of the Logseq loop, or after the first block when
\* the list is empty: the detail of the next item or the next stage
LgLoopOp(list, i, project, stage) ==
    IF i <= Len(list) THEN Op("fetch", "getDetail", list[i].id)
    ELSE LgStageOp(StageAfter(project, stage))

\* the stage the loop is in after item i - 1
LgLoopStage(list, i, project, stage) ==
    IF i <= Len(list) THEN stage ELSE StageAfter(project, stage)

\* the page whose first block a stage writes under
StagePage(project, stage) ==
    projectPageName(project)
    \o (CASE stage = "components" -> <<"/", "Components">>
          [] stage = "screens" -> <<"/", "Screens">>
          [] OTHER -> <<"/", "Design Tokens">>)

\* the properties syncComponent passes to upsertBlock
componentProperties(project, fullComponent) ==
    [NoProps EXCEPT
        !.zid = fullComponent.id, !.ztype = "component",
        !.updated = EntityUpdated(fullComponent.id),
        !.url = <<"https://app.zeplin.io/project/", project.id,
                  "/components?coid=", fullComponent.id>>]

\* the children syncComponent passes to upsertBlock
componentChildren(fullComponent, imageContent) ==
    If(Truthy(fullComponent.description),
       <<Child(fullComponent.description.val, <<>>)>>)
    \o If(Truthy(imageContent), <<Child(imageContent.val, <<>>)>>)

screenUrl(project, fullScreen) ==
    <<"https://app.zeplin.io/project/", project.id, "/screen/", fullScreen.id>>

\* the children syncScreenAsPage passes to createBlockTree
screenChildren(project, fullScreen, imageContent) ==
    <<Child(<<"**Zeplin URL:** [View in Zeplin](">> \o screenUrl(project, fullScreen)
                \o <<")">>, <<>>)>>
    \o If(Truthy(fullScreen.description),
          <<Child(<<"**Description:** ">> \o fullScreen.description.val, <<>>)>>)
    \o If(Len(fullScreen.tags) > 0,
          <<Child(<<"**Tags:** ">> \o HashTags(fullScreen.tags), <<>>)>>)
    \o If(fullScreen.sec # NoSection,
          <<Child(<<"**Section:** ">> \o Interpolate(ApiSectionName(fullScreen.sec)),
                  <<>>)>>)
    \o If(Truthy(imageContent), <<Child(imageContent.val, <<>>)>>)

\* createProjectStructure has resolved
LgRunStructureDone ==
    /\ pc = "structure" /\ cfg.adapter = "logseq"
    /\ CommitGraph(createProjectPages(G, run.project, now))
    /\ LET stage == AfterStructure(run.project) IN
       Goto(LgStageOp(stage), [run EXCEPT !.stage = stage])
    /\ UNCHANGED <<pureVars, faulted, vaultVars, remote, cfg, runs, log, now>>

\* getComponents / getScreens has resolved: the first block of the page is
\* asked for (syncScreens ensures the page before)
LgRunListFetched ==
    /\ pc = "getList" /\ cfg.adapter = "logseq"
    /\ Goto(Op(IF run.stage = "screens" THEN "write" ELSE "read",
               "firstBlock", run.stage),
            [run EXCEPT !.list = StageList(run.stage), !.i = 1])
    /\ UNCHANGED <<pureVars, blocks, pages, faulted, vaultVars, remote, cfg,
                   runs, log, now>>

\* getPageFirstBlockUuid has resolved with a block: the loop of the stage, or
\* the colors of the tokens
LgRunFirstBlock ==
    /\ pc = "firstBlock"
    /\ LET name == StagePage(run.project, run.stage)
           g1 == IF run.stage = "screens" THEN ensurePage(G, name, NoProps) ELSE G
           pageUuid == getPageFirstBlockUuid(g1, name)
       IN /\ pageUuid # NullUuid
          /\ CommitGraph(g1)
          /\ IF run.stage = "tokens"
             THEN IF run.project.number_of_colors > 0
                  THEN Goto(Op("fetch", "getColors", "none"),
                            [run EXCEPT !.parent = pageUuid])
                  ELSE IF run.project.number_of_text_styles > 0
                  THEN Goto(Op("fetch", "getTextStyles", "none"),
                            [run EXCEPT !.parent = pageUuid])
                  ELSE Resolve(Ev("end", run.awaiting, <<>>), run)
             ELSE Goto(LgLoopOp(run.list, 1, run.project, run.stage),
                       [run EXCEPT !.parent = pageUuid,
                                   !.stage = LgLoopStage(run.list, 1, run.project, @)])
    /\ UNCHANGED <<pureVars, faulted, vaultVars, remote, cfg, runs, log, now>>

\* getPageFirstBlockUuid has resolved with null (the page is not there, or the
\* store has thrown and the throw was caught): the synchronizer throws
LgRunFirstBlockFails ==
    /\ pc \in {"firstBlock", "screenPage"}
    /\ ~faulted /\ faulted' = TRUE
    /\ Reject(CASE pc = "screenPage" ->
                     <<"Failed to get first block for screen page: ">>
                         \o screenPageName(run.project, run.full)
                 [] run.stage = "components" ->
                     <<"Failed to get components page first block">>
                 [] run.stage = "screens" ->
                     <<"Failed to get screens index page first block">>
                 [] OTHER -> <<"Failed to get design tokens page first block">>)
    /\ UNCHANGED <<pureVars, blocks, pages, vaultVars, remote, cfg, runs, log, now>>

\* getComponent / getScreen has resolved
LgRunDetailFetched ==
    /\ pc = "getDetail" /\ cfg.adapter = "logseq"
    /\ LET full == Detail(StageList(run.stage), run.list[run.i].id)
           imageUrl == extractImageUrl(full)
       IN Goto(IF run.stage = "screens" THEN Op("write", "screenPage", full.id)
               ELSE IF Truthy(imageUrl) THEN Op("download", "downloadImage", full.id)
               ELSE Op("write", "writeUnit", full.id),
               [run EXCEPT !.full = full, !.image = None])
    /\ UNCHANGED <<pureVars, blocks, pages, faulted, vaultVars, remote, cfg,
                   runs, log, now>>

\* syncScreenAsPage: ensurePage and getPageFirstBlockUuid of the page of the
\* screen have resolved
LgRunScreenPage ==
    /\ pc = "screenPage"
    /\ LET name == screenPageName(run.project, run.full)
           g1 == ensurePage(G, name,
                     [NoProps EXCEPT !.zid = run.full.id, !.ztype = "screen",
                                     !.updated = EntityUpdated(run.full.id),
                                     !.url = screenUrl(run.project, run.full)])
       IN /\ CommitGraph(g1)
          /\ Goto(Op("write", "linkBlock", run.full.id), run)
    /\ UNCHANGED <<pureVars, faulted, vaultVars, remote, cfg, runs, log, now>>

\* syncScreenAsPage: createBlock of the link in the index page has settled
LgRunLinkBlock ==
    /\ pc = "linkBlock"
    /\ \E fault \in {"none", "insert"} :
         /\ fault # "none" => ~faulted
         /\ faulted' = (faulted \/ fault # "none")
         /\ LET name == screenPageName(run.project, run.full)
                link == createBlock(blocks, run.parent, <<"[[">> \o name \o <<"]]">>,
                                    [NoProps EXCEPT !.zid = run.full.id,
                                                    !.ztype = "screen"],
                                    <<>>, fault)
                op == IF Truthy(extractImageUrl(run.full))
                      THEN Op("download", "downloadImage", run.full.id)
                      ELSE Op("write", "writeUnit", run.full.id)
            IN /\ blocks' = link.blocks
               /\ IF fault = "none" THEN Goto(op, run)
                  ELSE GotoCaught(<<"store error: ", fault>>, op, run)
    /\ UNCHANGED <<pureVars, pages, vaultVars, remote, cfg, runs, log, now>>

\* downloadAndFormatImage has resolved: a failed request gives null
LgRunDownloaded ==
    /\ pc = "downloadImage"
    /\ \E fetchOk \in BOOLEAN :
         /\ ~fetchOk => ~faulted
         /\ faulted' = (faulted \/ ~fetchOk)
         /\ LET imageContent == downloadAndFormatImage(extractImageUrl(run.full).val,
                                                       run.full.name, fetchOk)
                op == Op("write", "writeUnit", run.full.id)
                r == [run EXCEPT !.image = imageContent]
            IN IF fetchOk THEN Goto(op, r)
               ELSE GotoCaught(<<"image request failed">>, op, r)
    /\ UNCHANGED <<pureVars, blocks, pages, vaultVars, remote, cfg, runs, log, now>>

\* upsertBlock of a component, or createBlockTree of a screen, has settled:
\* the next item.  Only a throw of upsertBlockProperty leaves upsertBlock.
LgRunUnitWritten ==
    /\ pc = "writeUnit"
    /\ \E fault \in Faults :
         /\ fault # "none" => ~faulted
         /\ faulted' = (faulted \/ fault # "none")
         /\ IF run.stage = "components"
            THEN \E existing \in findBlockByZeplinId(blocks, run.full.id, fault) :
                   /\ FaultApplies(fault, existing,
                                   Some(componentProperties(run.project, run.full)))
                   /\ LET r == upsertBlock(blocks, run.parent,
                                           buildComponentContent(run.full), run.full.id,
                                           Some(componentProperties(run.project, run.full)),
                                           componentChildren(run.full, run.image),
                                           existing, fault, now)
                          op == LgLoopOp(run.list, run.i + 1, run.project, run.stage)
                          next == [run EXCEPT !.i = @ + 1,
                                              !.stage = LgLoopStage(run.list, run.i + 1,
                                                                    run.project, @)]
                      IN /\ blocks' = r.blocks
                         /\ log' = Append(log, [kind |-> "component", id |-> run.full.id,
                                                found |-> existing, ret |-> r.ret,
                                                fault |-> fault])
                         /\ IF r.raised THEN Reject(<<"store error">>)
                            ELSE IF fault = "none" THEN Goto(op, next)
                            ELSE GotoCaught(<<"store error: ", fault>>, op, next)
            ELSE /\ fault = "none"
                 /\ LET first == getPageFirstBlockUuid(
                                     G, screenPageName(run.project, run.full))
                    IN /\ blocks' = createBlockTree(
                                        blocks, first,
                                        screenChildren(run.project, run.full, run.image))
                       /\ log' = Append(log, [kind |-> "screen", id |-> run.full.id,
                                              found |-> NullUuid, ret |-> first,
                                              fault |-> fault])
                       /\ Goto(LgLoopOp(run.list, run.i + 1, run.project, run.stage),
                               [run EXCEPT !.i = @ + 1,
                                           !.stage = LgLoopStage(run.list, run.i + 1,
                                                                 run.project, @)])
    /\ UNCHANGED <<pureVars, pages, vaultVars, remote, cfg, runs, now>>

\* the token blocks syncDesignTokens creates for the colors
colorTokens ==
    [i \in 1..Len(remote.colors) |->
        [id |-> remote.colors[i].id,
         content |-> (IF Truthy(remote.colors[i].name) THEN remote.colors[i].name.val
                      ELSE <<"Unnamed">>)
                     \o <<": ">>
                     \o rgbaToHex(remote.colors[i].r, remote.colors[i].g,
                                  remote.colors[i].b, remote.colors[i].a)]]

\* the token blocks syncDesignTokens creates for the text styles
styleTokens ==
    [i \in 1..Len(remote.textStyles) |->
        [id |-> remote.textStyles[i].id,
         content |-> remote.textStyles[i].name
                         \o <<": ", "font of ", remote.textStyles[i].id>>]]

\* the createBlock calls for the colors have resolved
LgRunColorBlocks ==
    /\ pc = "colorBlocks"
    /\ blocks' = createTokens(
                     createBlock(blocks, run.parent,
                                 <<"## Colors (", ToString(Len(colorTokens)), ")">>,
                                 NoProps, <<>>, "none").blocks,
                     run.parent, colorTokens, "color")
    /\ IF run.project.number_of_text_styles > 0
       THEN Goto(Op("fetch", "getTextStyles", "none"), run)
       ELSE Resolve(Ev("end", run.awaiting, <<>>), run)
    /\ UNCHANGED <<pureVars, pages, faulted, vaultVars, remote, cfg, runs, log, now>>

\* the createBlock calls for the text styles have resolved: syncProject is over
LgRunStyleBlocks ==
    /\ pc = "styleBlocks"
    /\ blocks' = createTokens(
                     createBlock(blocks, run.parent,
                                 <<"## Text Styles (", ToString(Len(styleTokens)), ")">>,
                                 NoProps, <<>>, "none").blocks,
                     run.parent, styleTokens, "text-style")
    /\ Resolve(Ev("end", run.awaiting, <<>>), run)
    /\ UNCHANGED <<pureVars, pages, faulted, vaultVars, remote, cfg, runs, log, now>>

\* the settings tab: the user types another API token between two runs
RunSetToken ==
    /\ pc = "idle"
    /\ \E value \in {<<>>, <<"token">>} :
         /\ value # cfg.zeplinToken
         /\ cfg' = [cfg EXCEPT !.zeplinToken = value]
    /\ UNCHANGED <<pureVars, graphVars, vaultVars, remote, pc, run, runs, log, now>>

InitRun ==
    /\ PureOff
    /\ vault = NoMap /\ folders = {}
    /\ blocks = <<>> /\ pages = NoMap /\ hist = <<>> /\ faulted = FALSE
    /\ remote \in RunRemotes
    /\ cfg \in RunSettings
    /\ pc = "idle" /\ run = IdleRunState /\ runs = 0 /\ log = <<>> /\ now = 0

NextRun ==
    \/ RunHandleSync
    \/ RunProjectsFetched
    \/ RunPicked
    \/ RunProjectFetched
    \/ ObsRunStructureDone
    \/ ObsRunSectionsFetched
    \/ ObsRunListFetched
    \/ ObsRunDetailFetched
    \/ ObsRunItemWritten
    \/ ObsRunIndexWritten
    \/ RunColorsFetched
    \/ RunTextStylesFetched
    \/ ObsRunTokensWritten
    \/ LgRunStructureDone
    \/ LgRunListFetched
    \/ LgRunFirstBlock
    \/ LgRunFirstBlockFails
    \/ LgRunDetailFetched
    \/ LgRunScreenPage
    \/ LgRunLinkBlock
    \/ LgRunDownloaded
    \/ LgRunUnitWritten
    \/ LgRunColorBlocks
    \/ LgRunStyleBlocks
    \/ RunFetchRejects
    \/ RunStoreRejects
    \/ RunSucceeded
    \/ RunFailed
    \/ RunSetToken

SpecRun == InitRun /\ [][NextRun]_vars

\* a call that was started returns or fails: the continuation of the awaited
\* call is taken.  Invoking handleSync and changing a setting are the user's.
RunStep ==
    \/ RunProjectsFetched \/ RunPicked \/ RunProjectFetched
    \/ ObsRunStructureDone \/ ObsRunSectionsFetched \/ ObsRunListFetched
    \/ ObsRunDetailFetched \/ ObsRunItemWritten \/ ObsRunIndexWritten
    \/ RunColorsFetched \/ RunTextStylesFetched \/ ObsRunTokensWritten
    \/ LgRunStructureDone \/ LgRunListFetched \/ LgRunFirstBlock
    \/ LgRunFirstBlockFails \/ LgRunDetailFetched \/ LgRunScreenPage
    \/ LgRunLinkBlock \/ LgRunDownloaded \/ LgRunUnitWritten
    \/ LgRunColorBlocks \/ LgRunStyleBlocks
    \/ RunFetchRejects \/ RunStoreRejects \/ RunSucceeded \/ RunFailed

SpecRunLive == SpecRun /\ WF_vars(RunStep)


(***************************************************************************)
(* Claims about a run: hist is read as the trace of the run.               *)
(***************************************************************************)
LocalState == <<vault, folders, blocks, pages>>

ConfigurationNotice == Notice(<<"Please configure your Zeplin API token in settings">>)

IsFailureNotice(e) ==
    e.ev = "notice" /\ e.msg # <<>> /\ Head(e.msg) = "Sync failed: "

FailureNotices(h) == {k \in 1..Len(h) : IsFailureNotice(h[k])}

\* the remote fetches of syncProject that have failed
FetchFailures(h) ==
    {k \in 1..Len(h) : h[k].ev = "fail" /\ h[k].kind = "fetch" /\ h[k].what # "getProjects"}

\* C14 (state part): once a remote fetch of syncProject has failed, no call is
\* started or ended after it in that run, syncProject has rejected with the
\* error of the fetch, and when handleSync has returned the trace ends with the
\* one failure message of the run, which carries the message of that error.
C14_Aborted ==
    \A k \in FetchFailures(hist) :
        /\ \A j \in (k + 1)..Len(hist) : hist[j].ev = "notice"
        /\ pc \in {"rejected", "idle"}
        /\ pc = "rejected" => k = Len(hist) /\ run.error = hist[k].msg
        /\ pc = "idle" =>
              /\ Len(hist) = k + 1
              /\ hist[k + 1] = Notice(<<"Sync failed: ">> \o hist[k].msg)
              /\ FailureNotices(hist) = {k + 1}

\* C14 (step part): after the failure nothing of the vault or of the graph
\* changes in that run.
C14_NoWriteAfter == FetchFailures(hist) # {} => UNCHANGED LocalState

\* C14: when a remote fetch fails during syncProject the run aborts: no further
\* fetch and no further local write, syncProject rejects with the same error
\* and handleSync reports exactly one failure message carrying its message.
C14_FetchFailureAborts == [](C14_Aborted) /\ [][C14_NoWriteAfter]_vars

\* the detail fetch of the second surviving component has failed after the
\* first one was written, and handleSync has reported it
C14_Witness ==
    /\ pc = "idle" /\ Len(hist) > 2
    /\ hist[Len(hist) - 1] = Ev("fail", Op("fetch", "getDetail", "c3"),
                                <<"Resource not found.">>)
    /\ hist[Len(hist)] = Notice(<<"Sync failed: ", "Resource not found.">>)
    /\ \E j \in 1..Len(hist) :
          hist[j].ev = "end" /\ hist[j].what = "writeItem" /\ hist[j].id = "c1"

\* the creations and updates of local units that have failed: a file of the
\* vault, a block inserted or updated
WriteFailures(h) ==
    {k \in 1..Len(h) :
        /\ h[k].ev = "fail" /\ h[k].kind = "write"
        /\ h[k].what \in {"writeItem", "writeIndex", "writeTokens", "writeUnit",
                          "linkBlock"}
        /\ h[k].msg \in StoreErrors \cup {<<"store error: ", "insert">>,
                                         <<"store error: ", "update">>}}

\* C15: when creating or updating a local unit fails during a run, the failure
\* is raised and aborts the run: no call is started after it, syncProject
\* rejects, and handleSync ends with the failure message.
C15_LocalFailureAborts ==
    \A k \in WriteFailures(hist) :
        /\ \A j \in (k + 1)..Len(hist) : hist[j].ev = "notice"
        /\ pc \in {"rejected", "idle"}
        /\ pc = "idle" => FailureNotices(hist) = {Len(hist)}

\* C16: while the API token is empty, a step of the plugin leaves handleSync
\* returned, leaves the vault and the graph as they are, and an invocation of
\* handleSync shows the configuration message and nothing else: no remote
\* call, no picker.
C16_Step ==
    (pc = "idle" /\ cfg.zeplinToken = <<>>) =>
        /\ pc' = "idle"
        /\ UNCHANGED LocalState
        /\ runs' # runs => hist' = <<ConfigurationNotice>>

C16_EmptyTokenNeverStarts == [][C16_Step]_vars

\* a project was synced, the token was then emptied and handleSync invoked
\* again: the files are there and only the configuration message was shown
C16_Witness ==
    /\ pc = "idle" /\ cfg.zeplinToken = <<>> /\ runs = 2
    /\ hist = <<ConfigurationNotice>>
    /\ vault # NoMap

\* the calls of a trace: its events without the messages shown
Calls(h) == SelectSeq(h, LAMBDA e : e.ev # "notice")

\* at no moment of the trace two calls are in flight: a call is started only
\* when none is running, and the call that settles is the one started last
OneInFlight(h) ==
    LET c == Calls(h) IN
    \A k \in 1..Len(c) :
        IF k % 2 = 1 THEN c[k].ev = "start"
        ELSE /\ c[k].ev \in {"end", "fail"}
             /\ c[k].what = c[k - 1].what /\ c[k].id = c[k - 1].id

\* the starts of the detail fetches of a trace
DetailStarts(h) == {k \in 1..Len(h) : h[k].ev = "start" /\ h[k].what = "getDetail"}

\* the place of an item in the lists of the remote source, the components
\* before the screens
SourcePlace(id) ==
    LET ids == [k \in 1..Len(remote.components) |-> remote.components[k].id]
               \o [k \in 1..Len(remote.screens) |-> remote.screens[k].id]
    IN CHOOSE k \in 1..Len(ids) : ids[k] = id

\* C17: in a run at most one call is in flight at any moment, the details are
\* fetched in the order of the source lists, and between the starts of two
\* consecutive detail fetches the local write of the first item has settled.
C17_OneAtATime ==
    /\ OneInFlight(hist)
    /\ \A d1, d2 \in DetailStarts(hist) :
          d1 < d2 =>
             /\ SourcePlace(hist[d1].id) < SourcePlace(hist[d2].id)
             /\ \E w \in (d1 + 1)..(d2 - 1) :
                   /\ hist[w].ev \in {"end", "fail"}
                   /\ hist[w].what \in {"writeItem", "writeUnit"}
                   /\ hist[w].id = hist[d1].id

\* a run of the Obsidian plugin has fetched and written c1, then c3 (c2 is
\* excluded), then s1, and has succeeded
C17_Witness ==
    /\ pc = "idle" /\ cfg.adapter = "obsidian" /\ hist # <<>>
    /\ hist[Len(hist)] = Notice(<<"Successfully synced ", "P", "!">>)
    /\ {hist[d].id : d \in DetailStarts(hist)} = {"c1", "c3", "s1"}

\* the step of syncProject an event belongs to: 1 the project fetch, 2 the
\* base structure, 3 the components, 4 the screens, 5 the design tokens
StepOf(e) ==
    CASE e.what = "getProject" -> 1
      [] e.what = "structure" -> 2
      [] e.what \in {"getSections", "getList", "firstBlock", "writeIndex"} ->
            (IF e.id = "components" THEN 3 ELSE IF e.id = "screens" THEN 4 ELSE 5)
      [] e.what \in {"getDetail", "writeItem", "writeUnit", "screenPage",
                     "linkBlock", "downloadImage"} ->
            (IF \E k \in 1..Len(remote.components) : remote.components[k].id = e.id
             THEN 3 ELSE 4)
      [] e.what \in {"getColors", "getTextStyles", "writeTokens", "colorBlocks",
                     "styleBlocks"} -> 5
      [] OTHER -> 0

StepsStarted(h) == {StepOf(h[k]) : k \in {j \in 1..Len(h) : h[j].ev = "start"}} \ {0}

StepsDue(project) ==
    {1, 2, 5} \cup (IF project.number_of_components > 0 THEN {3} ELSE {})
              \cup (IF project.number_of_screens > 0 THEN {4} ELSE {})

\* C18 (state part): the steps of a run start in the order project fetch, base
\* structure, components, screens, design tokens; a run that has resolved has
\* gone through every step that was due; a run that has rejected carries the
\* error of the call that failed last.
C18_InOrder ==
    /\ LET started == SelectSeq(hist, LAMBDA e : e.ev = "start" /\ StepOf(e) > 0) IN
       \A k \in 1..(Len(started) - 1) : StepOf(started[k]) <= StepOf(started[k + 1])
    /\ pc = "resolved" =>
          /\ StepsStarted(hist) = StepsDue(run.project)
          /\ hist[Len(hist)].ev = "end"
    /\ pc = "rejected" =>
          /\ hist[Len(hist)].ev = "fail"
          /\ run.error = hist[Len(hist)].msg

\* C18: provided each call returns or fails, every run of syncProject ends: it
\* resolves after its steps in order or rejects on the first failure that is
\* not caught, and does not stay in between.
C18_RunTerminates ==
    /\ [](C18_InOrder)
    /\ (pc = "getProject") ~> (pc \in {"resolved", "rejected"})

\* a run of the Logseq plugin over components and screens has resolved
C18_Witness ==
    /\ pc = "resolved" /\ cfg.adapter = "logseq"
    /\ StepsStarted(hist) = {1, 2, 3, 4, 5}

\* the calls of the remote source started so far in this invocation
FetchStarts(h) == SelectSeq(h, LAMBDA e : e.ev = "start" /\ e.kind = "fetch")

\* the items whose detail a run that went through fetches, for a project that
\* counts components or screens: the Obsidian plugin those the filter keeps,
\* the Logseq plugin all
DetailsDue ==
    LET kept(list) == IF cfg.adapter = "obsidian"
                      THEN Filter(list, parsePatterns(cfg.excludePatterns))
                      ELSE list
        ids(list) == {list[k].id : k \in 1..Len(list)}
    IN (IF run.project.number_of_components > 0
        THEN ids(kept(remote.components)) ELSE {})
       \cup (IF run.project.number_of_screens > 0
             THEN ids(kept(remote.screens)) ELSE {})

\* C26: within one invocation of handleSync no call of the remote source is
\* started twice for the same call site and item; after a call of the remote
\* source has failed, whatever the failure, no call is started at all; and a
\* run that resolved has fetched the project, the lists and the detail of
\* every item due, once each.
C26_AttemptedOnce ==
    LET starts == FetchStarts(hist) IN
    /\ \A i, j \in 1..Len(starts) :
          (starts[i].what = starts[j].what /\ starts[i].id = starts[j].id) => i = j
    /\ \A k \in 1..Len(hist) :
          (hist[k].ev = "fail" /\ hist[k].kind = "fetch")
          => \A j \in (k + 1)..Len(hist) : hist[j].ev = "notice"
    /\ pc = "resolved" =>
          /\ {starts[i].id : i \in {n \in 1..Len(starts) : starts[n].what = "getDetail"}}
                = DetailsDue
          /\ \E i \in 1..Len(starts) : starts[i].what = "getProject"
          /\ \E i \in 1..Len(starts) : starts[i].what = "getColors"

\* the detail fetch of an item failed for want of a connection after other
\* calls had gone through, handleSync has returned, and the item was asked
\* for once
C26_Witness ==
    /\ pc = "idle" /\ Len(hist) >= 2
    /\ LET failed == hist[Len(hist) - 1] IN
       /\ failed.ev = "fail" /\ failed.what = "getDetail"
       /\ failed.msg = <<"Unable to reach Zeplin API. Check your internet connection.">>
       /\ Cardinality({k \in 1..Len(hist) :
                          /\ hist[k].ev = "start" /\ hist[k].what = "getDetail"
                          /\ hist[k].id = failed.id}) = 1
       /\ Len(FetchStarts(hist)) >= 5

\* the ids of the projects getProjects returned
ListedIds == {remote.projects[k].id : k \in 1..Len(remote.projects)}

\* C27 (state part): the picker is started right after getProjects has ended
\* with a list that is not empty; getProject, the first call of syncProject,
\* is started only after the picker has ended with the id of a listed project,
\* for exactly that id and with nothing but a message in between, and the
\* project synced is that one; a picker that ended with null is the last
\* event of the invocation.
C27_PickedOnly ==
    /\ \A k \in 1..Len(hist) :
          /\ (hist[k].ev = "start" /\ hist[k].what = "picker")
             => /\ k > 1 /\ Len(remote.projects) > 0
                /\ hist[k - 1].ev = "end" /\ hist[k - 1].what = "getProjects"
          /\ (hist[k].ev = "start" /\ hist[k].what = "getProject")
             => /\ hist[k].id \in ListedIds
                /\ \E j \in 1..(k - 1) :
                      /\ hist[j].ev = "end" /\ hist[j].what = "picker"
                      /\ hist[j].msg = <<hist[k].id>>
                      /\ \A m \in (j + 1)..(k - 1) : hist[m].ev = "notice"
                /\ pc \notin {"getProject", "rejected", "idle"}
                      => run.project.id = hist[k].id
          /\ (hist[k].ev = "end" /\ hist[k].what = "picker" /\ hist[k].msg = <<>>)
             => k = Len(hist) /\ pc = "idle"
    /\ pc = "picker" => hist[Len(hist)] = Ev("start", Op("ui", "picker", "none"), <<>>)

\* C27 (step part): while the picker is open, and when it resolves, nothing of
\* the vault or of the graph changes.
C27_PickerWritesNothing == pc = "picker" => UNCHANGED LocalState

\* C27: the picker is shown only after the project list was fetched and holds
\* the sync back: syncProject runs only for the id the user confirmed, and a
\* cancelled picker ends the invocation without a call or a write.
C27_PickerBlocksSync == [](C27_PickedOnly) /\ [][C27_PickerWritesNothing]_vars

\* the first invocation synced the second project of the list into the vault,
\* the second one was cancelled at the picker: the vault holds the files of
\* that project and nothing of the other
C27_Witness ==
    /\ runs = 2 /\ pc = "idle" /\ cfg.adapter = "obsidian"
    /\ hist[Len(hist)] = Ev("end", Op("ui", "picker", "none"), <<>>)
    /\ <<"Zeplin", "/", "Q", "/", "README.md">> \in DOMAIN vault
    /\ <<"Zeplin", "/", "P", "/", "README.md">> \notin DOMAIN vault


(***************************************************************************)
(* SpecRace: handleSync invoked while another invocation is under way.     *)
(* Each invocation goes through the components of the project and upserts  *)
(* one block per component under the first block of the components page;   *)
(* the lookup and the write of upsertBlock are two awaited calls, and the  *)
(* host may run a step of the other invocation between them.  run maps an  *)
(* invocation to its place; hist keeps the lookups and the writes.         *)
(***************************************************************************)
MaxSyncs == 2

RaceRuns == {"first", "second"}
RaceComponents == <<"c1", "c2">>
RaceIdle == [stage |-> "idle", i |-> 0, found |-> NullUuid]

InitRace ==
    /\ PureOff /\ VaultOff
    /\ blocks = <<Block(NullUuid, <<>>, NoProps)>>
    /\ pages = (<<"P", "/", "Components">> :> [first |-> 1, props |-> NoProps])
    /\ hist = <<>> /\ faulted = FALSE /\ now = 1
    /\ run = [r \in RaceRuns |-> RaceIdle] /\ runs = 0 /\ pc = "race"
    /\ remote = Null /\ cfg = Null /\ log = <<>>

\* the command callback: handleSync starts whatever the other invocation does
RaceHandleSync(r) ==
    /\ run[r].stage \in {"idle", "done"} /\ runs < MaxSyncs
    /\ run' = [run EXCEPT ![r] = [stage |-> "lookup", i |-> 1, found |-> NullUuid]]
    /\ runs' = runs + 1
    /\ UNCHANGED <<pureVars, graphVars, vaultVars, remote, cfg, pc, log, now>>

\* const existingBlockUuid = await this.findBlockByZeplinId(zeplinId)
RaceLookup(r) ==
    /\ run[r].stage = "lookup"
    /\ LET zeplinId == RaceComponents[run[r].i] IN
       \E existing \in findBlockByZeplinId(blocks, zeplinId, "none") :
          /\ run' = [run EXCEPT ![r].stage = "write", ![r].found = existing]
          /\ hist' = Append(hist, [kind |-> "lookup", by |-> r,
                                   id |-> zeplinId, uuid |-> existing])
    /\ UNCHANGED <<pureVars, blocks, pages, faulted, vaultVars, remote, cfg,
                   pc, runs, log, now>>

\* a mutant: the write looks the block up again
existingBlockUuidFresh(r) ==
    CHOOSE u \in findBlockByZeplinId(blocks, RaceComponents[run[r].i], "none") : TRUE

\* the value the continuation of upsertBlock holds: what the lookup returned
existingBlockUuid(r) == run[r].found

\* the rest of upsertBlock: the update or the creation, then the next component
RaceWrite(r) ==
    /\ run[r].stage = "write"
    /\ LET zeplinId == RaceComponents[run[r].i]
           res == upsertBlock(blocks, 1, <<"content">>, zeplinId,
                              Some([NoProps EXCEPT !.ztype = "component"]), <<>>,
                              existingBlockUuid(r), "none", now)
       IN /\ blocks' = res.blocks
          /\ hist' = Append(hist, [kind |-> "write", by |-> r,
                                   id |-> zeplinId, uuid |-> res.ret])
    /\ run' = [run EXCEPT ![r] =
                  IF run[r].i < Len(RaceComponents)
                  THEN [stage |-> "lookup", i |-> run[r].i + 1, found |-> NullUuid]
                  ELSE [stage |-> "done", i |-> 0, found |-> NullUuid]]
    /\ UNCHANGED <<pureVars, pages, faulted, vaultVars, remote, cfg,
                   pc, runs, log, now>>

NextRace ==
    \/ \E r \in RaceRuns : RaceHandleSync(r)
    \/ \E r \in RaceRuns : RaceLookup(r)
    \/ \E r \in RaceRuns : RaceWrite(r)

SpecRace == InitRace /\ [][NextRace]_vars

\* the lookups of hist for id that found no block
NullLookups(id) ==
    {k \in 1..Len(hist) : /\ hist[k].kind = "lookup" /\ hist[k].id = id
                          /\ hist[k].uuid = NullUuid}

\* the invocations that hold a null lookup for id and have not written yet
PendingCreates(id) ==
    {r \in RaceRuns : /\ run[r].stage = "write" /\ run[r].found = NullUuid
                      /\ RaceComponents[run[r].i] = id}

\* C25: an invocation of handleSync is never held back by another one, and
\* every lookup that found no block for a remote id ends in the creation of a
\* block, whatever the other invocation did between the lookup and the write:
\* the blocks tagged with the id are as many as the lookups that found none,
\* less those whose write is still to come.
C25_EveryNullLookupCreates ==
    /\ \A r \in RaceRuns :
          (run[r].stage \in {"idle", "done"} /\ runs < MaxSyncs)
          => ENABLED RaceHandleSync(r)
    /\ \A id \in {"c1", "c2"} :
          Cardinality(QueryZeplinId(blocks, id))
             = Cardinality(NullLookups(id)) - Cardinality(PendingCreates(id))

\* both invocations looked c1 up before either wrote, both found none, both
\* wrote: two blocks carry zeplin-id c1
C25_Witness ==
    /\ Len(hist) >= 4
    /\ hist[1].kind = "lookup" /\ hist[2].kind = "lookup"
    /\ hist[1].by # hist[2].by
    /\ hist[1].id = "c1" /\ hist[2].id = "c1"
    /\ hist[1].uuid = NullUuid /\ hist[2].uuid = NullUuid
    /\ Cardinality(QueryZeplinId(blocks, "c1")) = 2


(***************************************************************************)
(* SpecRetry: retry(fn, options) of utils/retry, attempt by attempt.  arg  *)
(* is the options object, a key that is not passed being absent; ret is    *)
(* [attempt, outcome]; fpc says where the function is: about to call fn,   *)
(* asleep, resolved or rejected.  hist keeps the calls of fn, of onRetry   *)
(* and of sleep.  What fn does at each call is drawn: it resolves with a   *)
(* value, rejects with an Error, or rejects with a value that is no Error. *)
(***************************************************************************)
MaxAttempts == 4

DEFAULT_OPTIONS ==
    [maxAttempts |-> 3, initialDelay |-> 1000, maxDelay |-> 10000,
     backoffMultiplier |-> 2]

RetryOptions ==
    [maxAttempts : {None} \cup {Some(n) : n \in 1..MaxAttempts},
     initialDelay : {None, Some(3000)},
     maxDelay : {None, Some(5000)},
     backoffMultiplier : {None, Some(3)}]

\* { ...DEFAULT_OPTIONS, ...options }
mergeOptions(options) ==
    [k \in DOMAIN DEFAULT_OPTIONS |->
        IF options[k].some THEN options[k].val ELSE DEFAULT_OPTIONS[k]]

\* what a call of fn may do
FnOutcomes ==
    {[ok |-> TRUE, isError |-> FALSE, val |-> "value"],
     [ok |-> FALSE, isError |-> TRUE, val |-> "e1"],
     [ok |-> FALSE, isError |-> TRUE, val |-> "e2"],
     [ok |-> FALSE, isError |-> FALSE, val |-> "text"]}

\* error instanceof Error ? error : new Error(String(error))
asError(thrown) == [isError |-> TRUE, msg |-> thrown.val]

RECURSIVE Pow(_, _)
Pow(base, exponent) ==
    IF exponent = 0 THEN 1 ELSE base * Pow(base, exponent - 1)

Min(a, b) == IF a <= b THEN a ELSE b

\* a mutant: the delay is not capped
delayUncapped(opts, attempt) ==
    opts.initialDelay * Pow(opts.backoffMultiplier, attempt - 1)

\* Math.min(initialDelay * Math.pow(backoffMultiplier, attempt - 1), maxDelay)
delay(opts, attempt) ==
    Min(opts.initialDelay * Pow(opts.backoffMultiplier, attempt - 1), opts.maxDelay)

RetryEvent(ev, attempt, outcome, ms) ==
    [ev |-> ev, attempt |-> attempt, outcome |-> outcome, ms |-> ms]

InitRetry ==
    /\ arg \in RetryOptions
    /\ ret = [attempt |-> 1, outcome |-> Null] /\ fpc = "try"
    /\ hist = <<>> /\ blocks = <<>> /\ pages = NoMap /\ faulted = FALSE
    /\ VaultOff /\ SyncOff /\ now = 0

\* one turn of the loop: fn is called and awaited; a success is returned, a
\* failure at the last attempt is thrown, another one is reported to onRetry
\* and the sleep is started
RetryAttempt ==
    /\ fpc = "try"
    /\ LET opts == mergeOptions(arg)
           attempt == ret.attempt
       IN /\ attempt <= opts.maxAttempts
          /\ \E outcome \in FnOutcomes :
                IF outcome.ok
                THEN /\ hist' = Append(hist, RetryEvent("fn", attempt, outcome, 0))
                     /\ ret' = [ret EXCEPT !.outcome = outcome]
                     /\ fpc' = "resolved"
                ELSE LET lastError == asError(outcome) IN
                     IF attempt = opts.maxAttempts
                     THEN /\ hist' = Append(hist, RetryEvent("fn", attempt, outcome, 0))
                          /\ ret' = [ret EXCEPT !.outcome = lastError]
                          /\ fpc' = "rejected"
                     ELSE /\ hist' = hist \o
                               <<RetryEvent("fn", attempt, outcome, 0),
                                 RetryEvent("onRetry", attempt, lastError, 0),
                                 RetryEvent("sleep", attempt, Null, delay(opts, attempt))>>
                          /\ ret' = ret
                          /\ fpc' = "sleep"
    /\ UNCHANGED <<arg, blocks, pages, faulted, vaultVars, syncVars, now>>

\* sleep has resolved: the next turn of the loop
RetrySlept ==
    /\ fpc = "sleep"
    /\ ret' = [ret EXCEPT !.attempt = @ + 1]
    /\ fpc' = "try"
    /\ UNCHANGED <<arg, graphVars, vaultVars, syncVars, now>>

NextRetry == RetryAttempt \/ RetrySlept

SpecRetry == InitRetry /\ [][NextRetry]_vars

\* the calls of fn so far
FnCalls == SelectSeq(hist, LAMBDA e : e.ev = "fn")

\* C28: retry calls fn at most maxAttempts times and at least once before it
\* settles; every call but the last one made has failed; it resolves with the
\* value of the first call that succeeded; it rejects only after maxAttempts
\* failed calls, with the error of the last one (made an Error when it was
\* none); each failed call but the maxAttempts-th is followed by one call of
\* onRetry with its number and its error and then by one sleep of
\* min(initialDelay * backoffMultiplier^(k-1), maxDelay), k its number; and
\* onRetry and sleep are called nowhere else.
C28_RetryContract ==
    LET opts == mergeOptions(arg)
        calls == FnCalls
        n == Len(calls)
    IN /\ n <= opts.maxAttempts
       /\ \A k \in 1..n : calls[k].attempt = k
       /\ \A k \in 1..(n - 1) : ~calls[k].outcome.ok
       /\ fpc \in {"resolved", "rejected"} => n >= 1
       /\ fpc = "resolved" =>
             /\ calls[n].outcome.ok
             /\ ret.outcome = calls[n].outcome
             /\ hist[Len(hist)] = calls[n]
       /\ fpc = "rejected" =>
             /\ n = opts.maxAttempts
             /\ ~calls[n].outcome.ok
             /\ ret.outcome = [isError |-> TRUE, msg |-> calls[n].outcome.val]
             /\ hist[Len(hist)] = calls[n]
       /\ \A i \in 1..Len(hist) :
             /\ (hist[i].ev = "fn" /\ ~hist[i].outcome.ok
                   /\ hist[i].attempt < opts.maxAttempts)
                => /\ Len(hist) >= i + 2
                   /\ hist[i + 1].ev = "onRetry"
                   /\ hist[i + 1].attempt = hist[i].attempt
                   /\ hist[i + 1].outcome.msg = hist[i].outcome.val
                   /\ hist[i + 2].ev = "sleep"
                   /\ hist[i + 2].ms =
                         LET full == opts.initialDelay
                                        * Pow(opts.backoffMultiplier, hist[i].attempt - 1)
                         IN IF full < opts.maxDelay THEN full ELSE opts.maxDelay
             /\ hist[i].ev = "onRetry"
                => /\ i > 1 /\ hist[i - 1].ev = "fn" /\ ~hist[i - 1].outcome.ok
                   /\ hist[i - 1].attempt < opts.maxAttempts
             /\ hist[i].ev = "sleep" => (i > 1 /\ hist[i - 1].ev = "onRetry")

\* with initialDelay 3000, multiplier 3 and the default cap and attempts, fn
\* failed three times: retry slept 3000 and 9000 and rejected with the error
\* of the third call, which was no Error when thrown
C28_Witness ==
    /\ fpc = "rejected"
    /\ arg.maxAttempts = None /\ arg.initialDelay = Some(3000)
    /\ arg.backoffMultiplier = Some(3) /\ arg.maxDelay = None
    /\ Len(FnCalls) = 3
    /\ hist[3].ms = 3000 /\ hist[6].ms = 9000
    /\ hist[1].outcome.val = "e1"
    /\ hist[7].outcome.val = "text" /\ ~hist[7].outcome.isError
    /\ ret.outcome = [isError |-> TRUE, msg |-> "text"]

====
